---- MODULE Spec2Model ----
(***************************************************************************)
(* FCC ULS downloader (src/main.py): the record parser with its merge      *)
(* policy, the SQLite store it upserts into, and the pipeline orchestrator *)
(* download_and_process.                                                   *)
(*                                                                         *)
(* Python strings are sequences of one-character strings, so that strip(), *)
(* upper(), lower() and the substring test are computed, not assumed.      *)
(***************************************************************************)
EXTENDS Integers, Sequences, FiniteSets, TLC

VARIABLES
    db,      \* the committed contents of the SQLite file: one sequence of rows per table
    conn,    \* the tables as seen through the connection process_csv_file holds open
    parse,   \* process_csv_file's position, arguments and locals
    ret,     \* the value the last call of process_csv_file returned
    run,     \* download_and_process's locals and position
    env,     \* the two remote archives (the input of a run), the configuration, and
             \* the FCCULSDownloader objects constructed on the store so far
    dl       \* a call of download_file_with_curl or download_file, and the file it writes

vars == <<db, conn, parse, ret, run, env, dl>>

-----------------------------------------------------------------------------
(* Bounds of the model *)

\* lines read from one flat file
MaxLines == 2

\* the parser is fed lines while the table it fills holds at most this many rows
MaxRows == 2

\* calls of download_and_process in one behaviour
MaxRuns == 2

\* FCCULSDownloader objects constructed on one store in one behaviour
MaxObjects == 2

\* the largest retry_count a fetch is called with
MaxRetryCount == 3

\* the bytes of the archive a URL serves
ArchiveLen == 2

-----------------------------------------------------------------------------
(* Python string primitives *)

LowerCase == <<"a", "b", "c", "d", "e", "f", "g", "h", "i", "j", "k", "l", "m", "n", "o", "p", "q", "r", "s", "t", "u", "v", "w", "x", "y", "z">>

UpperCase == <<"A", "B", "C", "D", "E", "F", "G", "H", "I", "J", "K", "L", "M", "N", "O", "P", "Q", "R", "S", "T", "U", "V", "W", "X", "Y", "Z">>

Whitespace == {" ", "\t"}

upper_char(c) ==
    IF \E i \in DOMAIN LowerCase : LowerCase[i] = c
    THEN UpperCase[CHOOSE i \in DOMAIN LowerCase : LowerCase[i] = c]
    ELSE c

lower_char(c) ==
    IF \E i \in DOMAIN UpperCase : UpperCase[i] = c
    THEN LowerCase[CHOOSE i \in DOMAIN UpperCase : UpperCase[i] = c]
    ELSE c

\* str.upper()
upper(s) == [i \in DOMAIN s |-> upper_char(s[i])]

\* str.lower()
lower(s) == [i \in DOMAIN s |-> lower_char(s[i])]

RECURSIVE lstrip(_)
lstrip(s) == IF s # <<>> /\ Head(s) \in Whitespace THEN lstrip(Tail(s)) ELSE s

RECURSIVE rstrip(_)
rstrip(s) ==
    IF s # <<>> /\ s[Len(s)] \in Whitespace THEN rstrip(SubSeq(s, 1, Len(s) - 1)) ELSE s

\* str.strip()
strip(s) == rstrip(lstrip(s))

\* Python truthiness of a str
truthy(s) == s # <<>>

\* needle in hay
contains(hay, needle) ==
    \E i \in 1..(Len(hay) - Len(needle) + 1) :
        SubSeq(hay, i, i + Len(needle) - 1) = needle

-----------------------------------------------------------------------------
(* The store: SQLite tables as sequences of rows in rowid order *)

\* a database file with nothing in it; created: the tables and indexes that exist
EmptyTables ==
    [licenses |-> <<>>, entities |-> <<>>, frequencies |-> <<>>, locations |-> <<>>,
     antennas |-> <<>>, application_purpose |-> <<>>, download_history |-> <<>>,
     created |-> {}]

\* the tables and the unique indexes init_database creates
SchemaObjects ==
    {"licenses", "entities", "download_history", "frequencies", "locations", "antennas",
     "application_purpose", "idx_entities_unique", "idx_frequencies_unique",
     "idx_locations_unique", "idx_antennas_unique", "idx_application_purpose_unique"}

\* CREATE TABLE IF NOT EXISTS name: the rows of the table after the statement
create_if_not_exists(tables, name) == IF name \in tables.created THEN tables[name] ELSE <<>>

\* a faulty variant of init_database below: the tables are created anew
init_database_anew(tables) == [EmptyTables EXCEPT !.created = SchemaObjects]

\* init_database: the seven CREATE TABLE IF NOT EXISTS and the five CREATE
\* UNIQUE INDEX IF NOT EXISTS, then commit
init_database(tables) ==
    [licenses |-> create_if_not_exists(tables, "licenses"),
     entities |-> create_if_not_exists(tables, "entities"),
     frequencies |-> create_if_not_exists(tables, "frequencies"),
     locations |-> create_if_not_exists(tables, "locations"),
     antennas |-> create_if_not_exists(tables, "antennas"),
     application_purpose |-> create_if_not_exists(tables, "application_purpose"),
     download_history |-> create_if_not_exists(tables, "download_history"),
     created |-> tables.created \cup SchemaObjects]

\* a faulty variant of INSERT OR REPLACE below: the table is emptied first
insert_after_delete(others, new) == <<new>>

\* INSERT OR REPLACE: the rows that collide with the new row on a UNIQUE
\* constraint are deleted, and the new row is appended with a fresh rowid;
\* others: the rows of the table that do not collide with it
insert_or_replace(others, new) == Append(others, new)

-----------------------------------------------------------------------------
(* process_csv_file, table_name = 'licenses' *)

ACTIVE == <<"A", "C", "T", "I", "V", "E">>

GRANTED == <<"G", "R", "A", "N", "T", "E", "D">>

LICENSED == <<"L", "I", "C", "E", "N", "S", "E", "D">>

\* the statuses of a row that an application record must not overwrite
SettledStatuses == {ACTIVE, GRANTED, LICENSED}

LicenseMinFields == 59

\* SELECT license_status, grant_date, expired_date FROM licenses WHERE unique_system_identifier = ?
select_license(licenses, id) ==
    SelectSeq(licenses, LAMBDA r : r.unique_system_identifier = id)

\* the existing row is a granted license with both dates
existing_is_settled(existing) ==
    /\ truthy(existing.license_status) /\ upper(existing.license_status) \in SettledStatuses
    /\ truthy(existing.grant_date) /\ truthy(strip(existing.grant_date))
    /\ truthy(existing.expired_date) /\ truthy(strip(existing.expired_date))

\* a faulty variant of the test below: the incoming record lacks one of the two dates
incoming_lacks_a_date(row) ==
    \/ (~truthy(row.f7) \/ ~truthy(strip(row.f7)))
    \/ (~truthy(row.f8) \/ ~truthy(strip(row.f8)))

\* the incoming record has neither a grant date nor an expiration date
incoming_has_no_dates(row) ==
    /\ (~truthy(row.f7) \/ ~truthy(strip(row.f7)))
    /\ (~truthy(row.f8) \/ ~truthy(strip(row.f8)))

\* a faulty variant of the decision below: no precedence, every record overwrites
should_process_always(licenses, is_license_data, row) == TRUE

should_process(licenses, is_license_data, row) ==
    IF is_license_data THEN TRUE
    ELSE LET found == select_license(licenses, row.f1) IN
         IF found = <<>> THEN TRUE
         ELSE ~(existing_is_settled(found[1]) /\ incoming_has_no_dates(row))

\* row[1:59] bound to the 58 columns of the INSERT
license_values(row) ==
    [unique_system_identifier |-> row.f1, license_status |-> row.f5,
     grant_date |-> row.f7, expired_date |-> row.f8, rest |-> row.rest]

\* a faulty variant of the constraint below: the identifier is not unique
license_never_conflicts(r, new) == FALSE

\* unique_system_identifier TEXT UNIQUE on licenses
license_conflict(r, new) == r.unique_system_identifier = new.unique_system_identifier

upsert_license(licenses, row) ==
    LET new == license_values(row)
    IN  insert_or_replace(SelectSeq(licenses, LAMBDA r : ~license_conflict(r, new)), new)

\* the outcome of an iteration that leaves the tables alone
unchanged(tables, error) == [tables |-> tables, counted |-> 0, error |-> error]

\* one iteration of the loop over the reader; error: a statement of this
\* iteration raises sqlite3.Error, which the iteration catches and logs
\* a faulty variant of the iteration below: a record the precedence rule skips
\* is counted all the same
license_row_counts_skipped(tables, is_license_data, row, error) ==
    IF row.n < LicenseMinFields THEN unchanged(tables, FALSE)
    ELSE IF error THEN unchanged(tables, TRUE)
    ELSE IF should_process(tables.licenses, is_license_data, row)
    THEN [tables |-> [tables EXCEPT !.licenses = upsert_license(@, row)],
          counted |-> 1, error |-> FALSE]
    ELSE [tables |-> tables, counted |-> 1, error |-> FALSE]

license_row(tables, is_license_data, row, error) ==
    IF row.n < LicenseMinFields THEN unchanged(tables, FALSE)
    ELSE IF error THEN unchanged(tables, TRUE)
    ELSE IF should_process(tables.licenses, is_license_data, row)
    THEN [tables |-> [tables EXCEPT !.licenses = upsert_license(@, row)],
          counted |-> 1, error |-> FALSE]
    ELSE unchanged(tables, FALSE)

-----------------------------------------------------------------------------
(* Values bound to SQL parameters: None, int, float and str *)

Null == [t |-> "null", v |-> <<>>]

TextVal(s) == [t |-> "text", v |-> s]

IntVal(n) == [t |-> "int", v |-> n]

\* the real number m / 10^e, with no trailing zero in the fraction
RECURSIVE RealVal(_, _)
RealVal(m, e) == IF e > 0 /\ m % 10 = 0 THEN RealVal(m \div 10, e - 1) ELSE [t |-> "real", v |-> <<m, e>>]

\* two column values collide in a UNIQUE index: NULL is distinct from every value, itself included
sql_eq(a, b) == a.t # "null" /\ a.t = b.t /\ a.v = b.v

Digits == <<"0", "1", "2", "3", "4", "5", "6", "7", "8", "9">>

is_digit(c) == \E i \in DOMAIN Digits : Digits[i] = c

digit_value(c) == (CHOOSE i \in DOMAIN Digits : Digits[i] = c) - 1

all_digits(s) == \A i \in DOMAIN s : is_digit(s[i])

RECURSIVE digits_value(_)
digits_value(s) ==
    IF s = <<>> THEN 0
    ELSE digits_value(SubSeq(s, 1, Len(s) - 1)) * 10 + digit_value(s[Len(s)])

unsigned(s) == IF s # <<>> /\ Head(s) \in {"+", "-"} THEN Tail(s) ELSE s

sign(s) == IF s # <<>> /\ Head(s) = "-" THEN -1 ELSE 1

\* int(value): surrounding whitespace and a sign are accepted; ok = FALSE is ValueError
parse_int(value) ==
    LET body == unsigned(strip(value)) IN
    IF body # <<>> /\ all_digits(body)
    THEN [ok |-> TRUE, v |-> IntVal(sign(strip(value)) * digits_value(body))]
    ELSE [ok |-> FALSE, v |-> Null]

\* the position of the decimal point in s, 0 when there is none
point_at(s) == IF \E i \in DOMAIN s : s[i] = "." THEN CHOOSE i \in DOMAIN s : s[i] = "." ELSE 0

\* float(value) for decimal literals (digits with at most one point); ok = FALSE is ValueError
parse_float(value) ==
    LET body == unsigned(strip(value))
        p == point_at(body)
        whole == IF p = 0 THEN body ELSE SubSeq(body, 1, p - 1)
        frac == IF p = 0 THEN <<>> ELSE SubSeq(body, p + 1, Len(body))
    IN  IF whole \o frac # <<>> /\ all_digits(whole \o frac)
        THEN [ok |-> TRUE, v |-> RealVal(sign(strip(value)) * digits_value(whole \o frac), Len(frac))]
        ELSE [ok |-> FALSE, v |-> Null]

\* the value SQLite stores in a column of INTEGER affinity: text that reads as a
\* number is converted, and a real with no fraction becomes an integer
integer_affinity(x) ==
    LET conv == IF x.t = "text" THEN parse_float(x.v) ELSE [ok |-> x.t = "real", v |-> x] IN
    IF conv.ok THEN (IF conv.v.v[2] = 0 THEN IntVal(conv.v.v[1]) ELSE conv.v) ELSE x

-----------------------------------------------------------------------------
(* process_csv_file, table_name = 'entities' *)

EntityMinFields == 30

\* SELECT call_sign FROM entities WHERE unique_system_identifier = ?
select_entity(entities, id) ==
    SelectSeq(entities, LAMBDA r : r.unique_system_identifier = id)

\* the record is dropped: blank call sign, or another call sign already stored
entity_skipped(entities, row) ==
    LET call_sign == strip(row.f4)
        unique_system_identifier == strip(row.f1)
        found == select_entity(entities, unique_system_identifier)
    IN  \/ ~truthy(call_sign)
        \/ /\ truthy(unique_system_identifier)
           /\ found # <<>>
           /\ truthy(found[1].call_sign)
           /\ found[1].call_sign # call_sign

\* row[1:30] bound to the 29 columns of the INSERT
entity_values(row) ==
    [unique_system_identifier |-> row.f1, call_sign |-> row.f4, rest |-> row.rest]

\* unique_system_identifier TEXT UNIQUE on entities
entity_conflict(r, new) == r.unique_system_identifier = new.unique_system_identifier

upsert_entity(entities, row) ==
    LET new == entity_values(row)
    IN  insert_or_replace(SelectSeq(entities, LAMBDA r : ~entity_conflict(r, new)), new)

\* a faulty variant of the iteration below: a blank call sign is not dropped
entity_row_keeps_blank(tables, row, error) ==
    IF row.n < EntityMinFields THEN unchanged(tables, FALSE)
    ELSE IF error THEN unchanged(tables, TRUE)
    ELSE [tables |-> [tables EXCEPT !.entities = upsert_entity(@, row)],
          counted |-> 1, error |-> FALSE]

entity_row(tables, row, error) ==
    IF row.n < EntityMinFields \/ ~truthy(strip(row.f4)) THEN unchanged(tables, FALSE)
    ELSE IF error THEN unchanged(tables, TRUE)
    ELSE IF ~entity_skipped(tables.entities, row)
    THEN [tables |-> [tables EXCEPT !.entities = upsert_entity(@, row)],
          counted |-> 1, error |-> FALSE]
    ELSE unchanged(tables, FALSE)

-----------------------------------------------------------------------------
(* process_csv_file, table_name = 'frequencies' *)

FrequencyMinFields == 18

safe_float(value) ==
    IF truthy(value) /\ truthy(strip(value)) THEN parse_float(value).v ELSE Null

safe_int(value) ==
    IF truthy(value) /\ truthy(strip(value)) THEN parse_int(value).v ELSE Null

safe_str(value) ==
    IF truthy(value) /\ truthy(strip(value)) THEN TextVal(strip(value)) ELSE Null

\* processed_data for a file of the license dataset
frequency_values_license(row) ==
    [unique_system_identifier |-> safe_str(row.f1), uls_file_number |-> safe_str(row.f2),
     ebf_number |-> safe_str(row.f3), call_sign |-> safe_str(row.f4),
     frequency_assigned |-> safe_float(row.f10), frequency_upper_band |-> Null,
     frequency_carrier |-> Null, frequency_offset |-> Null,
     emission_designator |-> safe_str(row.f8), power_output |-> safe_float(row.f15),
     power_erp |-> safe_float(row.f16), tolerance |-> Null,
     frequency_number |-> safe_int(row.f6), frequency_seq_id |-> safe_int(row.f7),
     status_code |-> safe_str(row.f5), status_date |-> safe_str(row.f17)]

\* processed_data for a file of the application dataset
frequency_values_application(row) ==
    [unique_system_identifier |-> safe_str(row.f1), uls_file_number |-> Null,
     ebf_number |-> safe_str(row.f2), call_sign |-> Null,
     frequency_assigned |-> safe_float(row.f10), frequency_upper_band |-> Null,
     frequency_carrier |-> Null, frequency_offset |-> Null,
     emission_designator |-> safe_str(row.f8), power_output |-> Null,
     power_erp |-> Null, tolerance |-> Null,
     frequency_number |-> safe_int(row.f6), frequency_seq_id |-> safe_int(row.f7),
     status_code |-> Null, status_date |-> Null]

\* UNIQUE(unique_system_identifier, frequency_number, frequency_seq_id)
frequency_conflict(r, new) ==
    /\ sql_eq(r.unique_system_identifier, new.unique_system_identifier)
    /\ sql_eq(r.frequency_number, new.frequency_number)
    /\ sql_eq(r.frequency_seq_id, new.frequency_seq_id)

upsert_frequency(frequencies, new) ==
    insert_or_replace(SelectSeq(frequencies, LAMBDA r : ~frequency_conflict(r, new)), new)

frequency_row(tables, is_license_data, row, error) ==
    IF row.n < FrequencyMinFields THEN unchanged(tables, FALSE)
    ELSE IF ~error
    THEN [tables |-> [tables EXCEPT !.frequencies = upsert_frequency(@,
                        IF is_license_data THEN frequency_values_license(row)
                        ELSE frequency_values_application(row))],
          counted |-> 1, error |-> FALSE]
    ELSE unchanged(tables, TRUE)

-----------------------------------------------------------------------------
(* process_csv_file, table_name = 'locations' *)

LocationMinFields == 51

\* the indexes into row[1:51] converted with int()
LocationIntFields == {8, 10, 18, 19, 22, 23, 26, 27, 30, 31}

\* the indexes into row[1:51] converted with float()
LocationFloatFields == {15, 17, 20, 24, 28, 32, 37, 38}

int_or_none(value) == IF truthy(strip(value)) THEN parse_int(value).v ELSE Null

float_or_none(value) == IF truthy(strip(value)) THEN parse_float(value).v ELSE Null

text_or_none(value) == IF truthy(strip(value)) THEN TextVal(value) ELSE Null

\* processed_row[i] for the field at index i of row[1:51]
location_field(i, value) ==
    IF i \in LocationIntFields THEN int_or_none(value)
    ELSE IF i \in LocationFloatFields THEN float_or_none(value)
    ELSE text_or_none(value)

\* processed_row[:50] bound to the 50 columns of the INSERT: column 0 is
\* unique_system_identifier, column 7 is location_number (INTEGER)
location_values(row) ==
    [unique_system_identifier |-> location_field(0, row.f1),
     location_number |-> integer_affinity(location_field(7, row.f8)),
     rest |-> row.rest]

\* UNIQUE(unique_system_identifier, location_number)
location_conflict(r, new) ==
    /\ sql_eq(r.unique_system_identifier, new.unique_system_identifier)
    /\ sql_eq(r.location_number, new.location_number)

upsert_location(locations, new) ==
    insert_or_replace(SelectSeq(locations, LAMBDA r : ~location_conflict(r, new)), new)

location_row(tables, row, error) ==
    IF row.n < LocationMinFields THEN unchanged(tables, FALSE)
    ELSE IF ~error
    THEN [tables |-> [tables EXCEPT !.locations = upsert_location(@, location_values(row))],
          counted |-> 1, error |-> FALSE]
    ELSE unchanged(tables, TRUE)

-----------------------------------------------------------------------------
(* process_csv_file, table_name = 'antennas' *)

AntennaMinFields == 38

\* numeric_fields = list(range(11, 35))
AntennaFloatFields == 11..34

AntennaIntFields == {6, 7, 8}

\* processed_row[i] for the field at index i of row[1:38]
antenna_field(i, value) ==
    IF i \in AntennaFloatFields THEN float_or_none(value)
    ELSE IF i \in AntennaIntFields THEN int_or_none(value)
    ELSE text_or_none(value)

\* processed_row[:37] bound to the 37 columns of the INSERT: column 0 is
\* unique_system_identifier, column 5 antenna_number, column 6 location_number
antenna_values(row) ==
    [unique_system_identifier |-> antenna_field(0, row.f1),
     antenna_number |-> integer_affinity(antenna_field(5, row.f6)),
     location_number |-> integer_affinity(antenna_field(6, row.f7)),
     rest |-> row.rest]

\* UNIQUE(unique_system_identifier, antenna_number, location_number)
antenna_conflict(r, new) ==
    /\ sql_eq(r.unique_system_identifier, new.unique_system_identifier)
    /\ sql_eq(r.antenna_number, new.antenna_number)
    /\ sql_eq(r.location_number, new.location_number)

upsert_antenna(antennas, new) ==
    insert_or_replace(SelectSeq(antennas, LAMBDA r : ~antenna_conflict(r, new)), new)

antenna_row(tables, row, error) ==
    IF row.n < AntennaMinFields THEN unchanged(tables, FALSE)
    ELSE IF ~error
    THEN [tables |-> [tables EXCEPT !.antennas = upsert_antenna(@, antenna_values(row))],
          counted |-> 1, error |-> FALSE]
    ELSE unchanged(tables, TRUE)

-----------------------------------------------------------------------------
(* process_csv_file, table_name = 'application_purpose' *)

PurposeMinFields == 8

\* row[1:8] bound to the 7 columns of the INSERT
purpose_values(row) ==
    [unique_system_identifier |-> TextVal(row.f1), purpose_code |-> TextVal(row.f5), rest |-> row.rest]

\* UNIQUE(unique_system_identifier, purpose_code)
purpose_conflict(r, new) ==
    /\ sql_eq(r.unique_system_identifier, new.unique_system_identifier)
    /\ sql_eq(r.purpose_code, new.purpose_code)

upsert_purpose(application_purpose, new) ==
    insert_or_replace(SelectSeq(application_purpose, LAMBDA r : ~purpose_conflict(r, new)), new)

\* a faulty variant of the iteration below: the number of fields is not looked at
purpose_row_any_length(tables, row, error) ==
    IF ~error
    THEN [tables |-> [tables EXCEPT !.application_purpose = upsert_purpose(@, purpose_values(row))],
          counted |-> 1, error |-> FALSE]
    ELSE unchanged(tables, TRUE)

purpose_row(tables, row, error) ==
    IF row.n < PurposeMinFields THEN unchanged(tables, FALSE)
    ELSE IF ~error
    THEN [tables |-> [tables EXCEPT !.application_purpose = upsert_purpose(@, purpose_values(row))],
          counted |-> 1, error |-> FALSE]
    ELSE unchanged(tables, TRUE)

-----------------------------------------------------------------------------
(* process_csv_file: the dispatch on table_name *)

TableNames == {"licenses", "entities", "frequencies", "locations", "antennas", "application_purpose"}

\* the number of fields "if len(row) >= ..." asks of a line in the branch of table_name
min_fields(table_name) ==
    CASE table_name = "licenses" -> LicenseMinFields
      [] table_name = "entities" -> EntityMinFields
      [] table_name = "frequencies" -> FrequencyMinFields
      [] table_name = "locations" -> LocationMinFields
      [] table_name = "antennas" -> AntennaMinFields
      [] table_name = "application_purpose" -> PurposeMinFields

\* the body of the loop "for row in reader" of the branch table_name selects
process_row(tables, table_name, is_license_data, row, error) ==
    CASE table_name = "licenses" -> license_row(tables, is_license_data, row, error)
      [] table_name = "entities" -> entity_row(tables, row, error)
      [] table_name = "frequencies" -> frequency_row(tables, is_license_data, row, error)
      [] table_name = "locations" -> location_row(tables, row, error)
      [] table_name = "antennas" -> antenna_row(tables, row, error)
      [] table_name = "application_purpose" -> purpose_row(tables, row, error)
      [] OTHER -> unchanged(tables, FALSE)

-----------------------------------------------------------------------------
(* Paths: where the orchestrator puts an archive and its flat files *)

\* download_dir, the default of FCCULSDownloader.__init__
DownloadDir == <<"d", "o", "w", "n", "l", "o", "a", "d", "s">>

\* datetime.now().strftime('%Y%m%d')
Today == <<"2", "0", "2", "6", "1", "1", "0", "3">>

\* the destination names download_and_process gives the two archives
zip_name(dataset) ==
    (IF dataset = "A"
     THEN <<"L", "M", "_", "l", "i", "c", "e", "n", "s", "e", "s", "_">>
     ELSE <<"L", "M", "_", "a", "p", "p", "l", "i", "c", "a", "t", "i", "o", "n", "s", "_">>)
    \o Today \o <<".", "z", "i", "p">>

\* self.download_dir / filename
join(dir, name) == dir \o <<"/">> \o name

\* Path.stem of a name with a suffix of three letters
stem(name) == SubSeq(name, 1, Len(name) - 4)

\* extract_zip_file: the directory an archive is extracted to
extract_dir_of(download_dir, zip_file_name) ==
    join(download_dir, <<"e", "x", "t", "r", "a", "c", "t", "e", "d", "_">> \o stem(zip_file_name))

\* the path of a flat file of a dataset, as glob yields it
dat_path(download_dir, dataset, file_name) ==
    join(extract_dir_of(download_dir, zip_name(dataset)), file_name)

\* file_mappings, by the first two letters of the upper-cased file name
file_mappings(prefix) ==
    CASE prefix = <<"H", "D">> -> "licenses"
      [] prefix = <<"E", "N">> -> "entities"
      [] prefix = <<"F", "R">> -> "frequencies"
      [] prefix = <<"L", "O">> -> "locations"
      [] prefix = <<"A", "N">> -> "antennas"
      [] prefix = <<"A", "P">> -> "application_purpose"
      [] OTHER -> "none"

file_prefix(file_name) == SubSeq(upper(file_name), 1, 2)

\* the name of the flat file the FCC archives hold for a table
dat_name(table_name) ==
    (CASE table_name = "licenses" -> <<"H", "D">>
       [] table_name = "entities" -> <<"E", "N">>
       [] table_name = "frequencies" -> <<"F", "R">>
       [] table_name = "locations" -> <<"L", "O">>
       [] table_name = "antennas" -> <<"A", "N">>
       [] table_name = "application_purpose" -> <<"A", "P">>)
    \o <<".", "d", "a", "t">>

\* is_license_data = 'licenses' in str(csv_path).lower()
is_license_path(csv_path) ==
    contains(lower(csv_path), <<"l", "i", "c", "e", "n", "s", "e", "s">>)

-----------------------------------------------------------------------------
(* process_csv_file as a process: open, one step per line, commit or abort *)

NoRow == [n |-> 0]

\* ret while no call of process_csv_file has returned
NoValue == -1

\* pc: "idle" outside a call, "rows" inside the loop over the reader
\* dataset: the archive csv_path was extracted from ("A" licenses, "B" applications)
\* row: the line read last, error: its statement raised sqlite3.Error (logged, skipped)
\* lines: the lines read so far, reader: the lines still to be read
\* short: how many of the lines read so far had fewer fields than min_fields
\* aborted: "no", or what sent the call to its outer handler: "record" (one
\*   line, see abort_csv) or "other"
ParseIdle ==
    [pc |-> "idle", dataset |-> "A", table_name |-> "none", is_license_data |-> FALSE,
     row |-> NoRow, error |-> FALSE, records_processed |-> 0, lines |-> 0, short |-> 0,
     aborted |-> "no", reader |-> <<>>]

\* open the file and the connection; is_license_data is set in the two
\* branches that read it
open_csv(dataset, csv_path, table_name, rows) ==
    /\ parse.pc = "idle"
    /\ parse' = [pc |-> "rows", dataset |-> dataset, table_name |-> table_name,
                 is_license_data |-> (table_name \in {"licenses", "frequencies"}
                                      /\ is_license_path(csv_path)),
                 row |-> NoRow, error |-> FALSE, records_processed |-> 0, lines |-> 0,
                 short |-> 0, aborted |-> "no", reader |-> rows]
    /\ conn' = db
    /\ ret' = NoValue
    /\ UNCHANGED db

\* one iteration of "for row in reader"
read_row(row, error, rest) ==
    /\ parse.pc = "rows"
    /\ LET out == process_row(conn, parse.table_name, parse.is_license_data, row, error) IN
        /\ conn' = out.tables
        /\ parse' = [parse EXCEPT !.row = row,
                                  !.error = out.error,
                                  !.records_processed = @ + out.counted,
                                  !.lines = @ + 1,
                                  !.short = @ + (IF row.n < min_fields(parse.table_name)
                                                 THEN 1 ELSE 0),
                                  !.reader = rest]
    /\ UNCHANGED <<db, ret>>

\* conn.commit() and return records_processed
commit_csv ==
    /\ parse.pc = "rows"
    /\ db' = conn
    /\ ret' = parse.records_processed
    /\ parse' = [parse EXCEPT !.pc = "idle", !.row = NoRow, !.error = FALSE]
    /\ UNCHANGED conn

\* a faulty variant of the abort below: one transaction spans the files, and
\* the rollback undoes the files before this one as well
abort_csv_shared_transaction(cause) ==
    /\ parse.pc = "rows"
    /\ db' = init_database(EmptyTables)
    /\ conn' = db'
    /\ ret' = 0
    /\ parse' = [parse EXCEPT !.pc = "idle", !.row = NoRow, !.error = FALSE, !.aborted = cause]

\* a faulty variant of the abort below: what the file wrote so far is kept
abort_csv_keeps_rows(cause) ==
    /\ parse.pc = "rows"
    /\ db' = conn
    /\ ret' = 0
    /\ parse' = [parse EXCEPT !.pc = "idle", !.row = NoRow, !.error = FALSE, !.aborted = cause]
    /\ UNCHANGED conn

\* an exception reaches "except Exception" of process_csv_file: the connection
\* rolls back and 0 is returned. cause "record": one line raised something
\* that is no sqlite3.Error (csv.Error from the reader, as for a field longer
\* than the field size limit after a quote that is never closed; OverflowError
\* when an integer too large for SQLite is bound); cause "other": the store
\* cannot be reached or the commit fails
abort_csv(cause) ==
    /\ parse.pc = "rows"
    /\ conn' = db
    /\ ret' = 0
    /\ parse' = [parse EXCEPT !.pc = "idle", !.row = NoRow, !.error = FALSE, !.aborted = cause]
    /\ UNCHANGED db

-----------------------------------------------------------------------------
(* Input lines, by record kind: the fields the parser reads, by position *)

Date1 == <<"2", "0", "2", "0", "0", "1", "0", "1">>

LicenseRow(n, status, grant_date, expired_date) ==
    [n |-> n, f1 |-> <<"1">>, f5 |-> status, f7 |-> grant_date, f8 |-> expired_date,
     rest |-> <<"p">>]

\* (grant date, expiration date): both given, none given, one of the two blank
DatePairs == {<<Date1, Date1>>, <<<<>>, <<>>>>, <<<<" ">>, Date1>>, <<Date1, <<>>>>, <<<<>>, <<" ">>>>}

LicenseRows ==
    { LicenseRow(LicenseMinFields, s, d[1], d[2]) : s \in {ACTIVE, <<"A">>}, d \in DatePairs }
    \cup { LicenseRow(LicenseMinFields, s, d[1], d[2]) :
             s \in {<<"G", "r", "a", "n", "t", "e", "d">>, <<"l", "i", "c", "e", "n", "s", "e", "d">>},
             d \in {<<Date1, Date1>>, <<<<>>, <<>>>>} }
    \cup { LicenseRow(LicenseMinFields - 1, ACTIVE, <<>>, Date1) }

EntityRow(n, f1, f4, rest) == [n |-> n, f1 |-> f1, f4 |-> f4, rest |-> rest]

EntityRows ==
    { EntityRow(EntityMinFields, <<"1">>, c, <<"p">>) :
        c \in {<<"A">>, <<"A", " ">>, <<"B">>, <<>>, <<" ">>} }
    \cup { EntityRow(EntityMinFields, <<"1">>, <<"A">>, <<"q">>),
           EntityRow(EntityMinFields, <<>>, <<"A">>, <<"p">>),
           EntityRow(EntityMinFields, <<>>, <<"B">>, <<"p">>),
           EntityRow(EntityMinFields - 1, <<"1">>, <<"B">>, <<"q">>) }

FrequencyRow(n, f1, f6, f15) ==
    [n |-> n, f1 |-> f1, f2 |-> <<"7">>, f3 |-> <<>>, f4 |-> <<"W">>, f5 |-> <<"A">>,
     f6 |-> f6, f7 |-> <<"1">>, f8 |-> <<"F">>, f10 |-> <<"4", "6", "5", ".", "0", "1">>,
     f15 |-> f15, f16 |-> <<>>, f17 |-> <<>>]

FrequencyRows ==
    { FrequencyRow(FrequencyMinFields, <<"1">>, <<"1">>, <<"5">>),
      FrequencyRow(FrequencyMinFields, <<"1">>, <<" ", "1">>, <<"2", ".", "5">>),
      FrequencyRow(FrequencyMinFields, <<"1">>, <<" ">>, <<"5">>),
      FrequencyRow(FrequencyMinFields - 1, <<"1">>, <<"2">>, <<"5">>) }

LocationRow(n, f8, rest) == [n |-> n, f1 |-> <<"1">>, f8 |-> f8, rest |-> rest]

LocationRows ==
    { LocationRow(LocationMinFields, <<"1">>, <<"p">>),
      LocationRow(LocationMinFields, <<"0", "1">>, <<"q">>),
      LocationRow(LocationMinFields, <<>>, <<"p">>),
      LocationRow(LocationMinFields, <<"x">>, <<"p">>),
      LocationRow(LocationMinFields - 1, <<"2">>, <<"p">>) }

AntennaRow(n, f6, f7, rest) == [n |-> n, f1 |-> <<"1">>, f6 |-> f6, f7 |-> f7, rest |-> rest]

AntennaRows ==
    { AntennaRow(AntennaMinFields, <<"1">>, <<"1">>, <<"p">>),
      AntennaRow(AntennaMinFields, <<"1">>, <<"1", " ">>, <<"q">>),
      AntennaRow(AntennaMinFields, <<" ">>, <<"x">>, <<"p">>),
      AntennaRow(AntennaMinFields, <<"x">>, <<"1">>, <<"p">>),
      AntennaRow(AntennaMinFields - 1, <<"2">>, <<"2">>, <<"p">>) }

PurposeRow(n, f5, rest) == [n |-> n, f1 |-> <<"1">>, f5 |-> f5, rest |-> rest]

PurposeRows ==
    { PurposeRow(PurposeMinFields, <<"N", "E">>, <<"p">>),
      PurposeRow(PurposeMinFields, <<"N", "E">>, <<"q">>),
      PurposeRow(PurposeMinFields, <<>>, <<"p">>),
      PurposeRow(PurposeMinFields - 1, <<"M", "D">>, <<"p">>) }

RowsOf(table_name) ==
    CASE table_name = "licenses" -> LicenseRows
      [] table_name = "entities" -> EntityRows
      [] table_name = "frequencies" -> FrequencyRows
      [] table_name = "locations" -> LocationRows
      [] table_name = "antennas" -> AntennaRows
      [] table_name = "application_purpose" -> PurposeRows

-----------------------------------------------------------------------------
(* download_file_with_curl: the result of the retry loop *)

\* retry_count, the default of download_file_with_curl
RetryCount == 3

None == <<>>

\* one pass of the retry loop: "no_curl" shutil.which finds no curl, "ok" exit
\* code 0 and a file that is not empty, "empty" exit code 0 and no file or an
\* empty one, "fail" another exit code
AttemptOutcomes == {"no_curl", "ok", "empty", "fail"}

\* the value returned when the passes from number attempt on have the given
\* outcomes: file_path at the first accepted pass, None without curl or after
\* the last pass
RECURSIVE curl_attempts(_, _, _, _)
curl_attempts(file_path, outcomes, attempt, retry_count) ==
    IF attempt >= retry_count THEN None
    ELSE IF outcomes[attempt + 1] = "no_curl" THEN None
    ELSE IF outcomes[attempt + 1] = "ok" THEN file_path
    ELSE IF attempt = retry_count - 1 THEN None
    ELSE curl_attempts(file_path, outcomes, attempt + 1, retry_count)

download_file_with_curl(download_dir, filename, outcomes) ==
    curl_attempts(join(download_dir, filename), outcomes, 0, RetryCount)

-----------------------------------------------------------------------------
(* download_file_with_curl and download_file as processes: one step per pass *)
(* of the retry loop, with the destination file the passes write             *)

\* the archive is replaced on the server from time to time; a byte is known by
\* the version it was served from
Versions == {1, 2}

remote_content(version) == [i \in 1..ArchiveLen |-> version]

\* a faulty variant of the wait below: the same wait before every retry
wait_time_fixed(attempt) == 2 * 60

\* wait_time = 2 ** attempt * 60
wait_time(attempt) == (2 ^ attempt) * 60

\* pc: "idle" outside a call, "loop" at the head of the retry loop
\* method: "curl" for download_file_with_curl, "requests" for download_file
\* waits: the arguments of time.sleep, in order
\* log: per transport attempt, what the transport reported and the size of the
\*   destination file after it
\* result: "file_path", "None", or "raised"; "pending" during the call
\* file: the bytes at file_path, <<>> when there is no file or an empty one; it
\*   stays on disk between calls
\* offset, delivered: how many bytes of the file that was there the last
\*   attempt kept, and the bytes it wrote after them
\* curl_missing: the call ended because shutil.which found no curl
DlIdle ==
    [pc |-> "idle", method |-> "curl", retry_count |-> 0, attempt |-> 0, version |-> 1,
     waits |-> <<>>, log |-> <<>>, result |-> "pending", file |-> <<>>,
     offset |-> 0, delivered |-> <<>>, curl_missing |-> FALSE]

\* the call begins; mkdir_ok: self.download_dir.mkdir(exist_ok=True), which
\* only download_file_with_curl calls, does not raise
begin_download(method, retry_count, version, mkdir_ok) ==
    /\ dl.pc = "idle"
    /\ LET d == [DlIdle EXCEPT !.method = method, !.retry_count = retry_count,
                               !.version = version, !.file = dl.file]
       IN  dl' = IF method = "curl" /\ ~mkdir_ok THEN [d EXCEPT !.result = "raised"]
                 ELSE IF retry_count = 0 THEN [d EXCEPT !.result = "None"]
                 ELSE [d EXCEPT !.pc = "loop"]
    /\ UNCHANGED <<db, conn, parse, ret, run, env>>

\* if attempt > 0: time.sleep(wait_time)
slept(d) ==
    IF d.attempt > 0 THEN [d EXCEPT !.waits = Append(@, wait_time(d.attempt))] ELSE d

\* a faulty variant of the end of a pass below: what the transport reports is
\* taken as it is, whatever the file
end_of_attempt_trusts_transport(d, reported_ok, offset, delivered) ==
    LET file == SubSeq(d.file, 1, offset) \o delivered
        e == [d EXCEPT !.file = file, !.offset = offset, !.delivered = delivered,
                       !.log = Append(@, [reported_ok |-> reported_ok, size |-> Len(file)])]
    IN  IF reported_ok THEN [e EXCEPT !.pc = "idle", !.result = "file_path"]
        ELSE IF d.attempt = d.retry_count - 1 THEN [e EXCEPT !.pc = "idle", !.result = "None"]
        ELSE [e EXCEPT !.attempt = @ + 1]

\* a faulty variant of the end of a pass below: the first failure ends the call
end_of_attempt_gives_up(d, reported_ok, offset, delivered) ==
    LET file == SubSeq(d.file, 1, offset) \o delivered
        e == [d EXCEPT !.file = file, !.offset = offset, !.delivered = delivered,
                       !.log = Append(@, [reported_ok |-> reported_ok, size |-> Len(file)])]
    IN  IF reported_ok /\ Len(file) > 0 THEN [e EXCEPT !.pc = "idle", !.result = "file_path"]
        ELSE [e EXCEPT !.pc = "idle", !.result = "None"]

\* the end of a pass in which the transport ran: the file is returned when the
\* transport reported success and the file exists and is not empty; otherwise
\* an exception is raised and caught, and the loop goes on or returns None
end_of_attempt(d, reported_ok, offset, delivered) ==
    LET file == SubSeq(d.file, 1, offset) \o delivered
        e == [d EXCEPT !.file = file, !.offset = offset, !.delivered = delivered,
                       !.log = Append(@, [reported_ok |-> reported_ok, size |-> Len(file)])]
    IN  IF reported_ok /\ Len(file) > 0 THEN [e EXCEPT !.pc = "idle", !.result = "file_path"]
        ELSE IF d.attempt = d.retry_count - 1 THEN [e EXCEPT !.pc = "idle", !.result = "None"]
        ELSE [e EXCEPT !.attempt = @ + 1]

\* the bytes of the archive from offset on, as many as were received
received_from(version, offset, received) ==
    LET last == IF offset + received > ArchiveLen THEN ArchiveLen ELSE offset + received
    IN  SubSeq(remote_content(version), offset + 1, last)

\* one pass of the loop of download_file_with_curl; has_curl: shutil.which
\* finds curl; returncode_ok: curl exits with 0; received: the bytes the
\* server sent before the transfer ended. curl is run with -C - and --output
\* file_path: it goes on from the size of the file that is there
curl_attempt(has_curl, returncode_ok, received) ==
    /\ dl.pc = "loop" /\ dl.method = "curl"
    /\ LET d == slept(dl)
           offset == Len(dl.file)
       IN  dl' = IF ~has_curl
                 THEN [d EXCEPT !.pc = "idle", !.result = "None", !.curl_missing = TRUE]
                 ELSE end_of_attempt(d, returncode_ok, offset,
                                     received_from(dl.version, offset, received))
    /\ UNCHANGED <<db, conn, parse, ret, run, env>>

\* one pass of the loop of download_file, with a new session; stage:
\* "no_response" an exception before open(file_path, 'wb') (the connection,
\* the status, the error page), "broken" an exception while the chunks are
\* written, "complete" the chunks are written to the end of the response
requests_attempt(stage, received) ==
    /\ dl.pc = "loop" /\ dl.method = "requests"
    /\ LET d == slept(dl)
       IN  dl' = IF stage = "no_response"
                 THEN end_of_attempt(d, FALSE, Len(dl.file), <<>>)
                 ELSE end_of_attempt(d, stage = "complete", 0,
                                     received_from(dl.version, 0, received))
    /\ UNCHANGED <<db, conn, parse, ret, run, env>>

-----------------------------------------------------------------------------
(* The remote archives: the input of a run *)

NoArchive == [size |-> 0, files |-> <<>>]

DatFile(name, rows) == [name |-> name \o <<".", "d", "a", "t">>, rows |-> rows]

\* the archives the license URL may serve
ArchivesA ==
    { [size |-> 3, files |-> <<
          DatFile(<<"H", "D">>, <<LicenseRow(LicenseMinFields, ACTIVE, Date1, Date1)>>),
          DatFile(<<"E", "N">>, <<EntityRow(EntityMinFields, <<"1">>, <<"A">>, <<"p">>)>>) >>],
      [size |-> 3, files |-> <<
          DatFile(<<"r", "e", "a", "d", "m", "e">>, <<PurposeRow(PurposeMinFields, <<"N", "E">>, <<"p">>)>>),
          DatFile(<<"f", "r">>, <<FrequencyRow(FrequencyMinFields, <<"1">>, <<"1">>, <<"5">>),
                                  FrequencyRow(FrequencyMinFields, <<"1">>, <<" ">>, <<"5">>)>>) >>] }

\* the archives the application URL may serve
ArchivesB ==
    { [size |-> 5, files |-> <<
          DatFile(<<"H", "D">>, <<LicenseRow(LicenseMinFields, <<"A">>, Date1, <<>>)>>) >>],
      [size |-> 5, files |-> <<
          DatFile(<<"E", "N">>, <<EntityRow(EntityMinFields, <<"1">>, <<"B">>, <<"q">>)>>),
          DatFile(<<"A", "P">>, <<PurposeRow(PurposeMinFields, <<"N", "E">>, <<"q">>)>>) >>] }

-----------------------------------------------------------------------------
(* download_and_process as a process *)

\* pc: "idle" outside a call, then "fetch", "extract", "process" for dataset,
\*   "history" (the INSERT of the try block) and "except" (the handler)
\* runs: the calls that have returned or raised, result: how the last one ended
\*   ("True", "False", or "raised": the exception left download_and_process)
\* what the call did, as its log tells it:
\*   attempted: the datasets download_file_with_curl was called for
\*   extracted: the datasets extract_zip_file returned a directory for
\*   processed: the counts process_csv_file returned
\*   failed: a warning or an error was logged (a fetch, an expansion, a file,
\*     a record or a history write failed)
\*   warned: the warning "Downloads completed but no records were processed"
\*     was logged
\*   extracted_to: per dataset, the members extractall wrote into extract_dir
\*   parsed: the datasets a file of whose extract_dir was given to the parser
\* tables_before: the store when the call began
RunIdle ==
    [pc |-> "idle", dataset |-> "A", runs |-> 0, success |-> TRUE, total_records |-> 0,
     lm_licenses_zip |-> None, lm_apps_zip |-> None, dat_files |-> <<>>,
     error_msg |-> "", result |-> "none", tables_before |-> EmptyTables,
     attempted |-> {}, extracted |-> {}, processed |-> <<>>, failed |-> FALSE,
     warned |-> FALSE, extracted_to |-> [A |-> <<>>, B |-> <<>>], parsed |-> {}]

\* a faulty variant of the continuation below: the application dataset is left out
after_dataset_history(r) == [r EXCEPT !.pc = "history", !.dat_files = <<>>]

\* where the call goes on after the block of a dataset
after_dataset(r) ==
    IF r.dataset = "A"
    THEN [r EXCEPT !.pc = "fetch", !.dataset = "B", !.dat_files = <<>>]
    ELSE [r EXCEPT !.pc = "history", !.dat_files = <<>>]

\* an exception reaches the except clause of download_and_process
raise(r, e) ==
    [r EXCEPT !.pc = "except", !.error_msg = e, !.dat_files = <<>>, !.failed = TRUE]

\* the call is over
return(r, result) ==
    [r EXCEPT !.pc = "idle", !.runs = @ + 1, !.result = result, !.dat_files = <<>>]

start_run ==
    /\ run.pc = "idle" /\ parse.pc = "idle"
    /\ run' = [RunIdle EXCEPT !.pc = "fetch", !.runs = run.runs, !.tables_before = db]
    /\ UNCHANGED <<db, conn, parse, ret, env, dl>>

\* lm_licenses_zip = self.download_file_with_curl(...), and the same for
\* lm_apps_zip; mkdir_ok: self.download_dir.mkdir(exist_ok=True) does not raise
fetch(mkdir_ok, outcomes) ==
    /\ run.pc = "fetch"
    /\ LET zip == download_file_with_curl(env.download_dir, zip_name(run.dataset), outcomes)
           called == [run EXCEPT !.attempted = @ \cup {run.dataset}]
           got == IF run.dataset = "A" THEN [called EXCEPT !.lm_licenses_zip = zip]
                  ELSE [called EXCEPT !.lm_apps_zip = zip]
       IN  run' = IF ~mkdir_ok THEN raise(called, "OSError")
                  ELSE IF zip # None THEN [got EXCEPT !.pc = "extract"]
                  ELSE after_dataset([got EXCEPT !.failed = TRUE])
    /\ UNCHANGED <<db, conn, parse, ret, env, dl>>

\* a faulty variant of the expansion below: the directory is returned although
\* extractall raised
extract_zip_file_hides_failure(files, outcome, members) ==
    [extract_dir |-> IF outcome = "mkdir_fails" THEN "raised" ELSE "extract_dir",
     members |-> IF outcome = "ok" THEN files ELSE SubSeq(files, 1, members)]

\* extract_zip_file on an archive of files; outcome "ok": extractall writes
\* every member and the directory is returned, "bad_zip": ZipFile or
\* extractall raises after members of them are written and None is returned,
\* "mkdir_fails": extract_dir.mkdir raises
extract_zip_file(files, outcome, members) ==
    CASE outcome = "ok" -> [extract_dir |-> "extract_dir", members |-> files]
      [] outcome = "bad_zip" -> [extract_dir |-> "None", members |-> SubSeq(files, 1, members)]
      [] outcome = "mkdir_fails" -> [extract_dir |-> "raised", members |-> <<>>]

\* extract_dir = self.extract_zip_file(zip); if extract_dir: the loop over
\* the flat files glob finds in it
extract(outcome, members) ==
    /\ run.pc = "extract"
    /\ LET e == extract_zip_file(env.archives[run.dataset].files, outcome, members)
           written == [run EXCEPT !.extracted_to[run.dataset] = e.members]
       IN  run' = CASE e.extract_dir = "extract_dir" ->
                         [written EXCEPT !.pc = "process", !.extracted = @ \cup {run.dataset},
                                         !.dat_files = e.members]
                    [] e.extract_dir = "None" -> after_dataset([written EXCEPT !.failed = TRUE])
                    [] e.extract_dir = "raised" -> raise(written, "OSError")
    /\ UNCHANGED <<db, conn, parse, ret, env, dl>>

\* for dat_file in extract_dir.glob("*.dat"): the loop is over
process_done ==
    /\ run.pc = "process" /\ parse.pc = "idle" /\ run.dat_files = <<>>
    /\ run' = after_dataset(run)
    /\ UNCHANGED <<db, conn, parse, ret, env, dl>>

\* a file whose prefix is not in file_mappings is passed over
process_ignore ==
    /\ run.pc = "process" /\ parse.pc = "idle" /\ run.dat_files # <<>>
    /\ file_mappings(file_prefix(Head(run.dat_files).name)) = "none"
    /\ run' = [run EXCEPT !.dat_files = Tail(@)]
    /\ UNCHANGED <<db, conn, parse, ret, env, dl>>

\* the loop of process_csv_file over the lines of a file: the tables as the
\* connection sees them after the last line, and records_processed; errors[i]
\* tells whether the statement of line i raises
RECURSIVE process_rows(_, _, _, _, _, _)
process_rows(tables, table_name, is_license_data, rows, errors, records_processed) ==
    IF rows = <<>> THEN [tables |-> tables, records_processed |-> records_processed]
    ELSE LET r == process_row(tables, table_name, is_license_data, Head(rows), Head(errors))
         IN  process_rows(r.tables, table_name, is_license_data, Tail(rows), Tail(errors),
                          records_processed + r.counted)

\* process_csv_file as one call: the committed tables and the value returned;
\* aborted: an exception outside the record loop's own handler (open, connect,
\* the reader, commit), after which nothing is committed and 0 is returned
process_csv_file(tables, csv_path, table_name, rows, errors, aborted) ==
    LET r == process_rows(tables, table_name, is_license_path(csv_path), rows, errors, 0)
    IN  IF aborted THEN [tables |-> tables, records |-> 0]
        ELSE [tables |-> r.tables, records |-> r.records_processed]

\* a faulty variant of the addition below: only the first count is kept
add_first_records(total_records, records) ==
    IF total_records = 0 THEN records ELSE total_records

\* total_records += records
add_records(total_records, records) == total_records + records

\* records = self.process_csv_file(dat_file, table_name); total_records += records
process_file ==
    /\ run.pc = "process" /\ run.dat_files # <<>>
    /\ LET dat_file == Head(run.dat_files)
           table_name == file_mappings(file_prefix(dat_file.name))
       IN  /\ table_name # "none"
           /\ \E aborted \in BOOLEAN, errors \in [1..Len(dat_file.rows) -> BOOLEAN] :
                 LET r == process_csv_file(db, dat_path(env.download_dir, run.dataset, dat_file.name),
                                           table_name, dat_file.rows, errors, aborted)
                 IN  /\ db' = r.tables
                     /\ run' = [run EXCEPT !.total_records = add_records(@, r.records),
                                           !.processed = Append(@, r.records),
                                           !.parsed = @ \cup {run.dataset},
                                           !.failed = @ \/ aborted \/ \E i \in DOMAIN errors : errors[i],
                                           !.dat_files = Tail(@)]
    /\ conn' = db'
    /\ UNCHANGED <<parse, ret, env, dl>>

\* file_size: the sizes of the archives that were fetched
file_size(r) ==
    (IF r.lm_licenses_zip # None THEN env.archives.A.size ELSE 0)
    + (IF r.lm_apps_zip # None THEN env.archives.B.size ELSE 0)

\* the row the try block inserts
history_row(r) ==
    [file_type |-> "LM", file_size |-> IntVal(file_size(r)),
     records_processed |-> r.total_records, success |-> r.success, error_message |-> Null]

\* the row the except clause inserts
failure_row(e) ==
    [file_type |-> "LM", file_size |-> Null, records_processed |-> 0, success |-> FALSE,
     error_message |-> [t |-> "text", v |-> e]]

\* INSERT INTO download_history, on a connection of its own
insert_history(tables, row) == [tables EXCEPT !.download_history = Append(@, row)]

\* a faulty variant of the test below: the warning whenever nothing was counted
no_records_at_all(r) == r.total_records = 0

\* if total_records == 0 and (lm_licenses_zip or lm_apps_zip): logger.warning
no_records_warning(r) ==
    r.total_records = 0 /\ (r.lm_licenses_zip # None \/ r.lm_apps_zip # None)

\* the end of the try block: the warning, then the history row; store_ok:
\* connect, INSERT and commit do not raise
record_history(store_ok) ==
    /\ run.pc = "history"
    /\ LET checked == [run EXCEPT !.warned = no_records_warning(run)]
       IN  IF store_ok
           THEN /\ db' = insert_history(db, history_row(checked))
                /\ run' = return(checked, IF run.success THEN "True" ELSE "False")
           ELSE /\ db' = db
                /\ run' = raise(checked, "sqlite3.OperationalError")
    /\ conn' = db'
    /\ UNCHANGED <<parse, ret, env, dl>>

\* the except clause: success = False, and the failed run is recorded; when
\* that INSERT raises too, the exception leaves download_and_process
handle_exception(store_ok) ==
    /\ run.pc = "except"
    /\ IF store_ok
       THEN /\ db' = insert_history(db, failure_row(run.error_msg))
            /\ run' = return([run EXCEPT !.success = FALSE], "False")
       ELSE /\ db' = db
            /\ run' = return([run EXCEPT !.success = FALSE], "raised")
    /\ conn' = db'
    /\ UNCHANGED <<parse, ret, env, dl>>

-----------------------------------------------------------------------------
(* SpecRun: download_and_process called up to MaxRuns times on a store that  *)
(* starts empty, the two URLs serving the same archives at every call        *)

InitRun ==
    /\ db = init_database(EmptyTables)
    /\ conn = db
    /\ parse = ParseIdle
    /\ ret = NoValue
    /\ run = RunIdle
    /\ dl = DlIdle
    /\ \E a \in ArchivesA, b \in ArchivesB :
          env = [download_dir |-> DownloadDir, archives |-> [A |-> a, B |-> b], objects |-> 1, found_rows |-> FALSE]

RunStart == run.runs < MaxRuns /\ start_run

RunFetch ==
    \E mkdir_ok \in BOOLEAN, outcomes \in [1..RetryCount -> AttemptOutcomes] :
        fetch(mkdir_ok, outcomes)

RunExtract ==
    \E outcome \in {"ok", "bad_zip", "mkdir_fails"},
       members \in 0..(Len(env.archives[run.dataset].files) - 1) : extract(outcome, members)

RunProcess == process_done \/ process_ignore \/ process_file

RunHistory == \E store_ok \in BOOLEAN : record_history(store_ok)

RunExcept == \E store_ok \in BOOLEAN : handle_exception(store_ok)

NextRun == RunStart \/ RunFetch \/ RunExtract \/ RunProcess \/ RunHistory \/ RunExcept

SpecRun == InitRun /\ [][NextRun]_vars

-----------------------------------------------------------------------------
(* SpecStore: the runs of SpecRun, and between them new FCCULSDownloader    *)
(* objects constructed on the store the runs have filled                    *)

\* FCCULSDownloader.__init__ on the same db_path: self.init_database();
\* objects counts the constructions, found_rows tells whether this one found
\* rows in the store
FCCULSDownloader_init ==
    /\ run.pc = "idle" /\ parse.pc = "idle"
    /\ env.objects < MaxObjects
    /\ db' = init_database(db)
    /\ conn' = db'
    /\ env' = [env EXCEPT !.objects = @ + 1,
                          !.found_rows =
                              /\ db.download_history # <<>>
                              /\ [db EXCEPT !.download_history = <<>>] # init_database(EmptyTables)]
    /\ UNCHANGED <<parse, ret, run, dl>>

\* as InitRun, with the license archives that hold a file the orchestrator
\* passes over and the application archives of one file
InitStore ==
    /\ db = init_database(EmptyTables)
    /\ conn = db
    /\ parse = ParseIdle
    /\ ret = NoValue
    /\ run = RunIdle
    /\ dl = DlIdle
    /\ \E a \in ArchivesA, b \in ArchivesB :
          /\ file_mappings(file_prefix(a.files[1].name)) = "none"
          /\ Len(b.files) = 1
          /\ env = [download_dir |-> DownloadDir, archives |-> [A |-> a, B |-> b],
                    objects |-> 1, found_rows |-> FALSE]

SpecStore == InitStore /\ [][NextRun \/ FCCULSDownloader_init]_vars

-----------------------------------------------------------------------------
(* SpecFetch: the two fetch functions called again and again with the same *)
(* destination name, the server's archive changing between calls            *)

\* no archive is expanded in SpecFetch and SpecParse
EnvNone ==
    [download_dir |-> DownloadDir, archives |-> [A |-> NoArchive, B |-> NoArchive], objects |-> 1, found_rows |-> FALSE]

InitFetch ==
    /\ db = init_database(EmptyTables)
    /\ conn = db
    /\ parse = ParseIdle
    /\ ret = NoValue
    /\ run = RunIdle
    /\ env = EnvNone
    /\ dl = DlIdle

FetchBegin ==
    \E method \in {"curl", "requests"}, retry_count \in 0..MaxRetryCount,
       version \in Versions, mkdir_ok \in BOOLEAN :
        begin_download(method, retry_count, version, mkdir_ok)

FetchCurl ==
    \E has_curl \in BOOLEAN, returncode_ok \in BOOLEAN, received \in 0..ArchiveLen :
        curl_attempt(has_curl, returncode_ok, received)

FetchRequests ==
    \E stage \in {"no_response", "broken", "complete"}, received \in 0..ArchiveLen :
        requests_attempt(stage, received)

NextFetch == FetchBegin \/ FetchCurl \/ FetchRequests

SpecFetch == InitFetch /\ [][NextFetch]_vars

-----------------------------------------------------------------------------
(* SpecParse: the parser alone, fed the flat files of one record kind from  *)
(* either dataset, line by line, on a store that starts empty               *)

InitParse ==
    /\ db = init_database(EmptyTables)
    /\ conn = db
    /\ \E t \in TableNames : parse = [ParseIdle EXCEPT !.table_name = t]
    /\ ret = NoValue
    /\ run = RunIdle
    /\ env = EnvNone
    /\ dl = DlIdle

ParseOpen ==
    /\ \E dataset \in {"A", "B"} :
        open_csv(dataset, dat_path(env.download_dir, dataset, dat_name(parse.table_name)),
                 parse.table_name, <<>>)
    /\ UNCHANGED <<run, env, dl>>

ParseRow ==
    /\ parse.lines < MaxLines
    /\ Len(conn[parse.table_name]) <= MaxRows
    /\ \E row \in RowsOf(parse.table_name), error \in BOOLEAN : read_row(row, error, <<>>)
    /\ UNCHANGED <<run, env, dl>>

ParseCommit == commit_csv /\ UNCHANGED <<run, env, dl>>

ParseAbort ==
    /\ \E cause \in {"record", "other"} : abort_csv(cause)
    /\ UNCHANGED <<run, env, dl>>

NextParse == ParseOpen \/ ParseRow \/ ParseCommit \/ ParseAbort

SpecParse == InitParse /\ [][NextParse]_vars

(* SpecConfigured: the parser as in SpecParse, the downloader constructed with *)
(* the default download_dir or with another one                               *)

\* values of the argument download_dir of FCCULSDownloader.__init__
DownloadDirs == {DownloadDir, <<"F", "C", "C", "_", "L", "i", "c", "e", "n", "s", "e", "s">>}

InitConfigured ==
    /\ db = init_database(EmptyTables)
    /\ conn = db
    /\ \E t \in TableNames : parse = [ParseIdle EXCEPT !.table_name = t]
    /\ ret = NoValue
    /\ run = RunIdle
    /\ \E download_dir \in DownloadDirs : env = [EnvNone EXCEPT !.download_dir = download_dir]
    /\ dl = DlIdle

SpecConfigured == InitConfigured /\ [][NextParse]_vars

-----------------------------------------------------------------------------
(* Properties of the parser *)

IsBlank(s) == strip(s) = <<>>

\* this step is one iteration of the loop over the reader
RowStep == parse.pc = "rows" /\ parse'.pc = "rows" /\ parse'.lines = parse.lines + 1

\* the iteration left the table alone and did not count the record
Skipped == conn' = conn /\ parse'.records_processed = parse.records_processed

Counted == parse'.records_processed = parse.records_processed + 1

IsSettledWithDates(existing) ==
    /\ upper(existing.license_status) \in {ACTIVE, GRANTED, LICENSED}
    /\ ~IsBlank(existing.grant_date)
    /\ ~IsBlank(existing.expired_date)

\* the License row of the record's identifier now holds the record
LicenseReplaced(row) ==
    LET now == select_license(conn'.licenses, row.f1) IN
    /\ Len(now) = 1
    /\ now[1].license_status = row.f5
    /\ now[1].grant_date = row.f7
    /\ now[1].expired_date = row.f8
    /\ now[1].rest = row.rest
    /\ Counted

\* C1: a License record (59 fields or more, its statements not failing) of the
\* application dataset whose identifier has a row is skipped, row unchanged and
\* not counted, exactly when that row has a settled status (any case) and both
\* dates non-blank and the record has both dates blank; every other record, and
\* every record of the license dataset, replaces the row and is counted.
C1_PrecedenceRule ==
    [][ RowStep /\ parse.table_name = "licenses"
        /\ parse'.row.n >= LicenseMinFields /\ ~parse'.error
        => LET row == parse'.row
               existing == select_license(conn.licenses, row.f1)
           IN  IF /\ parse.dataset = "B"
                  /\ existing # <<>>
                  /\ IsSettledWithDates(existing[1])
                  /\ IsBlank(row.f7) /\ IsBlank(row.f8)
               THEN Skipped
               ELSE LicenseReplaced(row) ]_vars

\* C1 witness: the first line of an application file, a full License record with
\* no failing statement, was not counted: the precedence rule skipped it.
C1_Witness ==
    /\ parse.pc = "rows" /\ parse.table_name = "licenses" /\ parse.dataset = "B"
    /\ parse.lines = 1 /\ parse.records_processed = 0
    /\ parse.row.n >= LicenseMinFields /\ ~parse.error
    /\ conn.licenses # <<>> /\ IsSettledWithDates(conn.licenses[1])
    /\ IsBlank(parse.row.f7) /\ IsBlank(parse.row.f8)

\* C2 (as claimed): an application record never leaves a row that was settled
\* with both dates with a blank grant date or a blank expiration date.
C2_NeverLosesADate ==
    [][ RowStep /\ parse.table_name = "licenses" /\ parse.dataset = "B"
        /\ parse'.row.n >= LicenseMinFields
        => LET existing == select_license(conn.licenses, parse'.row.f1)
               now == select_license(conn'.licenses, parse'.row.f1)
           IN  existing # <<>> /\ IsSettledWithDates(existing[1])
               => /\ now # <<>>
                  /\ ~IsBlank(now[1].grant_date)
                  /\ ~IsBlank(now[1].expired_date) ]_vars

\* C2 (amended): an application record replaces a row that is settled with both
\* dates only if the record has at least one non-blank date, so that after the
\* step the row still has a non-blank grant date or a non-blank expiration date.
C2_KeepsOneDate ==
    [][ RowStep /\ parse.table_name = "licenses" /\ parse.dataset = "B"
        /\ parse'.row.n >= LicenseMinFields
        => LET existing == select_license(conn.licenses, parse'.row.f1)
               now == select_license(conn'.licenses, parse'.row.f1)
           IN  existing # <<>> /\ IsSettledWithDates(existing[1])
               => /\ now # <<>>
                  /\ ~IsBlank(now[1].grant_date) \/ ~IsBlank(now[1].expired_date)
                  /\ conn' # conn => ~IsBlank(parse'.row.f7) \/ ~IsBlank(parse'.row.f8) ]_vars

\* C2 witness: the committed row is settled with both dates, and the first line
\* of an application file has replaced it by a record with one blank date.
C2_Witness ==
    /\ parse.pc = "rows" /\ parse.table_name = "licenses" /\ parse.dataset = "B"
    /\ parse.lines = 1 /\ parse.records_processed = 1
    /\ db.licenses # <<>> /\ IsSettledWithDates(db.licenses[1])
    /\ conn.licenses # <<>>
    /\ IsBlank(conn.licenses[1].grant_date) # IsBlank(conn.licenses[1].expired_date)

\* the Entity row of the record's identifier now holds the record
EntityReplaced(row) ==
    LET now == select_entity(conn'.entities, row.f1) IN
    /\ Len(now) = 1
    /\ now[1].call_sign = row.f4
    /\ now[1].rest = row.rest
    /\ Counted

\* C3 (as claimed): an Entity record with a non-blank call sign is discarded, row
\* unchanged, when a row of its identifier holds another non-blank call sign, and
\* is inserted or replaces the row when the row holds the same call sign or no
\* row exists.
C3_EntityRule ==
    [][ RowStep /\ parse.table_name = "entities"
        /\ parse'.row.n >= EntityMinFields /\ ~parse'.error /\ ~IsBlank(parse'.row.f4)
        => LET row == parse'.row
               existing == select_entity(conn.entities, row.f1)
           IN  IF /\ existing # <<>>
                  /\ ~IsBlank(existing[1].call_sign)
                  /\ existing[1].call_sign # row.f4
               THEN Skipped
               ELSE EntityReplaced(row) ]_vars

\* C4: an Entity record whose call sign is empty or whitespace leaves the
\* entities table as it is and is not counted.
C4_BlankCallSignDiscarded ==
    [][ RowStep /\ parse.table_name = "entities" /\ IsBlank(parse'.row.f4) => Skipped ]_vars

\* C4 witness: the second line of a file is a full Entity record with a blank
\* call sign, a row of its identifier exists, and only the first line was counted.
C4_Witness ==
    /\ parse.pc = "rows" /\ parse.table_name = "entities"
    /\ parse.lines = 2 /\ parse.records_processed = 1
    /\ parse.row.n >= EntityMinFields /\ IsBlank(parse.row.f4)
    /\ select_entity(conn.entities, parse.row.f1) # <<>>

\* two column values are the same key component, NULL being one value
SameValue(a, b) == a.t = b.t /\ a.v = b.v

\* C6 (as claimed): every table holds at most one row per key, a key with an
\* absent component included.
C6_OneRowPerKey ==
    /\ \A i, j \in DOMAIN conn.licenses : i # j =>
         conn.licenses[i].unique_system_identifier # conn.licenses[j].unique_system_identifier
    /\ \A i, j \in DOMAIN conn.entities : i # j =>
         conn.entities[i].unique_system_identifier # conn.entities[j].unique_system_identifier
    /\ \A i, j \in DOMAIN conn.frequencies : i # j =>
         LET a == conn.frequencies[i]  b == conn.frequencies[j] IN
         ~ /\ SameValue(a.unique_system_identifier, b.unique_system_identifier)
           /\ SameValue(a.frequency_number, b.frequency_number)
           /\ SameValue(a.frequency_seq_id, b.frequency_seq_id)
    /\ \A i, j \in DOMAIN conn.locations : i # j =>
         LET a == conn.locations[i]  b == conn.locations[j] IN
         ~ /\ SameValue(a.unique_system_identifier, b.unique_system_identifier)
           /\ SameValue(a.location_number, b.location_number)
    /\ \A i, j \in DOMAIN conn.antennas : i # j =>
         LET a == conn.antennas[i]  b == conn.antennas[j] IN
         ~ /\ SameValue(a.unique_system_identifier, b.unique_system_identifier)
           /\ SameValue(a.antenna_number, b.antenna_number)
           /\ SameValue(a.location_number, b.location_number)
    /\ \A i, j \in DOMAIN conn.application_purpose : i # j =>
         LET a == conn.application_purpose[i]  b == conn.application_purpose[j] IN
         ~ /\ SameValue(a.unique_system_identifier, b.unique_system_identifier)
           /\ SameValue(a.purpose_code, b.purpose_code)

-----------------------------------------------------------------------------
(* Claims about download_and_process, checked under SpecRun *)

\* a call of download_and_process has returned or raised, and no other began
Finished == run.pc = "idle" /\ run.runs > 0

\* the rows of download_history the last call appended
Appended ==
    SubSeq(db.download_history, Len(run.tables_before.download_history) + 1,
           Len(db.download_history))

\* the rows that were there before the last call are still there, in place
EarlierRowsKept ==
    /\ Len(db.download_history) >= Len(run.tables_before.download_history)
    /\ SubSeq(db.download_history, 1, Len(run.tables_before.download_history))
         = run.tables_before.download_history

RECURSIVE Sum(_)
Sum(counts) == IF counts = <<>> THEN 0 ELSE Head(counts) + Sum(Tail(counts))

\* the loop over the flat files of one dataset when nothing fails
RECURSIVE process_files(_, _, _, _)
process_files(tables, download_dir, dataset, files) ==
    IF files = <<>> THEN tables
    ELSE LET dat_file == Head(files)
             table_name == file_mappings(file_prefix(dat_file.name))
             after == IF table_name = "none" THEN tables
                      ELSE process_csv_file(tables, dat_path(download_dir, dataset, dat_file.name),
                                            table_name, dat_file.rows,
                                            [i \in 1..Len(dat_file.rows) |-> FALSE], FALSE).tables
         IN  process_files(after, download_dir, dataset, Tail(files))

\* the store after a call in which nothing fails
full_pipeline(tables, e) ==
    process_files(process_files(tables, e.download_dir, "A", e.archives.A.files),
                  e.download_dir, "B", e.archives.B.files)

\* the last call was the second of two calls in which nothing failed, the
\* first of them on an empty store
SecondCleanRun ==
    /\ Finished /\ ~run.failed
    /\ run.tables_before.download_history # <<>>
    /\ [run.tables_before EXCEPT !.download_history = <<>>] = full_pipeline(init_database(EmptyTables), env)

\* C5: running the full pipeline twice on the same archives leaves, after the
\* second run, as many rows in each of the six tables as after the first run,
\* blank key fields included
C5_SameRowCounts ==
    SecondCleanRun =>
        \A table_name \in TableNames : Len(db[table_name]) = Len(run.tables_before[table_name])

\* the second run of C5 has happened
C5_Witness == SecondCleanRun /\ Len(db.frequencies) > 0

\* C7: every call of download_and_process appends exactly one row to
\* download_history, whatever fails during the call, and leaves the earlier
\* rows as they were
C7_ExactlyOneHistoryRow ==
    Finished => Len(Appended) = 1 /\ EarlierRowsKept

\* C7, what the calls do that end otherwise: at most one row is appended, the
\* earlier rows are kept, and no row is appended exactly when the call raised
C7_AtMostOneHistoryRow ==
    Finished =>
        /\ EarlierRowsKept
        /\ Len(Appended) = (IF run.result = "raised" THEN 0 ELSE 1)

\* download_file_with_curl returned None for one dataset and a path for the
\* other, which was expanded, and its flat files were handed to the parser
OneDatasetOnly(fetched, missed) ==
    /\ Finished
    /\ run.attempted = {"A", "B"}
    /\ run.error_msg # "OSError"
    /\ (IF missed = "A" THEN run.lm_licenses_zip ELSE run.lm_apps_zip) = None
    /\ (IF fetched = "A" THEN run.lm_licenses_zip ELSE run.lm_apps_zip) # None
    /\ fetched \in run.extracted

\* the row a call wrote is the one that reports its work
ReportsTheRun(row, size) ==
    /\ row.records_processed = Sum(run.processed)
    /\ row.success = TRUE
    /\ row.file_size = IntVal(size)

C9_FetchOfBAttempted == Finished => "B" \in run.attempted

\* C10: download_and_process never raises; after a store error, the failed
\* history write included, it returns False and the history row of the call
\* has success = false and an error message that is not empty
C10_NeverRaises ==
    Finished =>
        /\ run.result # "raised"
        /\ run.error_msg = "sqlite3.OperationalError" =>
              /\ run.result = "False"
              /\ Len(Appended) = 1
              /\ Appended[1].success = FALSE
              /\ Appended[1].error_message.t = "text"
              /\ Appended[1].error_message.v # ""

\* download_file_with_curl was called for both datasets and returned None
\* both times
BothFetchesFailed ==
    /\ Finished
    /\ run.attempted = {"A", "B"}
    /\ run.lm_licenses_zip = None /\ run.lm_apps_zip = None
    /\ run.error_msg # "OSError"

-----------------------------------------------------------------------------
(* The fetch, under SpecFetch *)

\* the attempt of a log entry was not accepted
FailedAttempt(e) == ~(e.reported_ok /\ e.size > 0)

AllFailed(log) == \A i \in DOMAIN log : FailedAttempt(log[i])

\* what holds of the attempts of a call whether or not curl is there: at most
\* retry_count of them, none after an accepted one, the path returned exactly
\* when the last one was accepted, and an exception only before the first
AttemptsBounded ==
    /\ Len(dl.log) <= dl.retry_count
    /\ AllFailed(SubSeq(dl.log, 1, Len(dl.log) - 1))
    /\ dl.pc = "loop" => AllFailed(dl.log) /\ Len(dl.log) = dl.attempt /\ dl.attempt < dl.retry_count
    /\ dl.result = "file_path" <=> dl.log # <<>> /\ ~FailedAttempt(dl.log[Len(dl.log)])
    /\ dl.result = "file_path" => dl.pc = "idle"
    /\ dl.result = "raised" => dl.log = <<>> /\ dl.method = "curl"

\* C12 as stated: a fetch with attempt count n makes at most n attempts, makes
\* another attempt after every failed one while attempts remain, returns the
\* path at the first accepted attempt, and returns None after n failed attempts
C12_RetriesUntilAccepted ==
    /\ AttemptsBounded
    /\ dl.pc = "idle" /\ AllFailed(dl.log) /\ dl.result # "raised" =>
           Len(dl.log) = dl.retry_count
    /\ dl.pc = "idle" /\ Len(dl.log) = dl.retry_count /\ AllFailed(dl.log) /\ dl.retry_count > 0 =>
           dl.result = "None"
    /\ dl.result = "None" => dl.pc = "idle" /\ AllFailed(dl.log) /\ Len(dl.log) = dl.retry_count

\* C12 amended: the same, except that download_file_with_curl returns None at
\* once, whatever attempts remain, in the pass in which it finds no curl
C12_RetriesWhileCurlIsThere ==
    /\ AttemptsBounded
    /\ dl.pc = "idle" /\ AllFailed(dl.log) /\ dl.result # "raised" /\ ~dl.curl_missing =>
           Len(dl.log) = dl.retry_count
    /\ dl.curl_missing =>
           dl.method = "curl" /\ dl.result = "None" /\ AllFailed(dl.log)
           /\ Len(dl.log) = dl.attempt /\ dl.attempt < dl.retry_count
    /\ dl.pc = "idle" /\ Len(dl.log) = dl.retry_count /\ AllFailed(dl.log) /\ dl.retry_count > 0 =>
           dl.result = "None"
    /\ dl.result = "None" => dl.pc = "idle" /\ AllFailed(dl.log)

\* a call with three attempts allowed returned the path at its second attempt
C12_Witness ==
    /\ dl.result = "file_path" /\ dl.retry_count = MaxRetryCount
    /\ Len(dl.log) = 2 /\ FailedAttempt(dl.log[1])

\* the passes of the retry loop the call has made
Passes == Len(dl.log) + (IF dl.curl_missing THEN 1 ELSE 0)

\* the base unit: what the first retry waits, 2 ** 1 * 60 seconds
BaseWait == wait_time(1)

\* C13: no wait before the first attempt and none after the last (one wait per
\* pass but the first), the first retry waits the base unit, each later retry
\* twice the wait of the retry before it; a call accepted at its third attempt
\* has waited base + 2 * base in all
C13_DoublingWaits ==
    /\ Len(dl.waits) = (IF Passes = 0 THEN 0 ELSE Passes - 1)
    /\ dl.waits # <<>> => dl.waits[1] = BaseWait
    /\ \A i \in DOMAIN dl.waits : i > 1 => dl.waits[i] = 2 * dl.waits[i - 1]
    /\ dl.result = "file_path" /\ Len(dl.log) = 3 =>
           dl.waits = <<BaseWait, 2 * BaseWait>> /\ Sum(dl.waits) = BaseWait + 2 * BaseWait

\* two failed attempts, then an accepted one
C13_Witness ==
    /\ dl.result = "file_path" /\ Len(dl.log) = 3
    /\ FailedAttempt(dl.log[1]) /\ FailedAttempt(dl.log[2])
    /\ Sum(dl.waits) = 360

\* the transport of attempt i reported success and left no file or an empty one
EmptySuccess(i) == dl.log[i].reported_ok /\ dl.log[i].size = 0

\* C14: the path is returned only after an attempt whose transport reported
\* success and whose file is there and not empty, and the file at the path
\* returned is not empty; an attempt whose transport reported success with no
\* file or an empty one is followed by another pass of the loop, or by None
\* when it was the last one allowed
C14_AcceptedOnlyWithFile ==
    /\ dl.result = "file_path" =>
           /\ dl.log # <<>>
           /\ dl.log[Len(dl.log)].reported_ok /\ dl.log[Len(dl.log)].size > 0
           /\ dl.file # <<>> /\ Len(dl.file) = dl.log[Len(dl.log)].size
    /\ \A i \in DOMAIN dl.log :
           EmptySuccess(i) =>
               \/ i < Passes
               \/ dl.pc = "loop" /\ dl.attempt = i /\ i < dl.retry_count
               \/ dl.pc = "idle" /\ dl.result = "None" /\ i = dl.retry_count

\* the transport reported success on an empty file, and the next attempt was
\* accepted
C14_Witness ==
    /\ Len(dl.log) = 2 /\ EmptySuccess(1)
    /\ dl.result = "file_path" /\ dl.file # <<>>

\* C15: every attempt starts from scratch, whatever file attempt k or an
\* earlier call left at the destination: a transfer writes from the first
\* byte of the file, the attempt is accepted exactly when the transport
\* reported success and itself delivered bytes, and the file returned is what
\* the accepted attempt delivered, bytes of the archive the server has now
C15_EachAttemptFromScratch ==
    dl.log # <<>> =>
        LET last == dl.log[Len(dl.log)]
        IN  /\ dl.delivered # <<>> => dl.offset = 0
            /\ ~FailedAttempt(last) <=> last.reported_ok /\ dl.delivered # <<>>
            /\ dl.result = "file_path" =>
                   /\ dl.file = dl.delivered
                   /\ dl.file = SubSeq(remote_content(dl.version), 1, Len(dl.file))

-----------------------------------------------------------------------------
(* Lines the parser does not take, under SpecParse *)

\* this step reads a line with fewer fields than its record kind asks for
ShortLineStep ==
    /\ parse.pc = "rows" /\ parse'.lines = parse.lines + 1
    /\ parse'.row.n < min_fields(parse.table_name)

\* this step ends a call in which every line read was such a line
ShortFileEnds ==
    parse.pc = "rows" /\ parse'.pc = "idle" /\ parse.lines > 0 /\ parse.short = parse.lines

\* C16: a line with fewer fields than the minimum of its record kind changes
\* no table, is not counted and raises nothing, and the loop goes on to the
\* next line; a call that read only such lines returns 0 and leaves the store
\* as it was
C16_ShortLinesSkipped ==
    [][/\ ShortLineStep =>
              Skipped /\ db' = db /\ ~parse'.error /\ parse'.pc = "rows"
       /\ ShortFileEnds => ret' = 0 /\ db' = db
      ]_vars

\* a file of two short lines has been read to its end
C16_Witness ==
    /\ parse.pc = "idle" /\ parse.lines = 2 /\ parse.short = 2
    /\ ret = 0 /\ conn = db

\* this step ends a call of process_csv_file in which nothing failed but
\* single records
CallEndsAfterRecordErrors ==
    parse.pc = "rows" /\ parse'.pc = "idle" /\ parse'.aborted # "other"

\* C17: a record that fails (its statement raises, or its line cannot be
\* read) is left out and the loop goes on; when the call ends, what the other
\* records wrote is committed and the count of the records that neither
\* failed nor were skipped is returned
C17_RecordErrorNeverAbortsFile ==
    [][/\ RowStep /\ parse'.error => Skipped /\ db' = db
       /\ CallEndsAfterRecordErrors => db' = conn /\ ret' = parse.records_processed
      ]_vars

-----------------------------------------------------------------------------
(* Numeric fields, under SpecParse *)

\* what the coercion of an integer field is to give: nothing for a blank
\* value, nothing for a value int() rejects, the number otherwise
CoercedInt(value) == IF IsBlank(value) THEN Null ELSE parse_int(value).v

\* the same for a real field and float()
CoercedFloat(value) == IF IsBlank(value) THEN Null ELSE parse_float(value).v

\* this step reads a Frequency, Location or Antenna line that is long enough
\* and whose statement does not fail
NumericRowStep ==
    /\ RowStep /\ ~parse'.error
    /\ parse.table_name \in {"frequencies", "locations", "antennas"}
    /\ parse'.row.n >= min_fields(parse.table_name)

\* the row the step wrote
Written == conn'[parse.table_name][Len(conn'[parse.table_name])]

\* C18: the record is upserted and counted whatever its numeric fields hold,
\* and each numeric column of the row written holds nothing when the field is
\* blank or does not parse as a number of the column's type, and the number
\* when it does
C18_NumericFieldsCoerced ==
    [][NumericRowStep =>
          /\ Counted
          /\ conn'[parse.table_name] # <<>>
          /\ LET row == parse'.row IN
             CASE parse.table_name = "frequencies" ->
                      /\ Written.frequency_number = CoercedInt(row.f6)
                      /\ Written.frequency_seq_id = CoercedInt(row.f7)
                      /\ Written.frequency_assigned = CoercedFloat(row.f10)
               [] parse.table_name = "locations" ->
                      Written.location_number = CoercedInt(row.f8)
               [] parse.table_name = "antennas" ->
                      /\ Written.antenna_number = CoercedInt(row.f6)
                      /\ Written.location_number = CoercedInt(row.f7)
      ]_vars

-----------------------------------------------------------------------------
(* The dataset of a file, under SpecConfigured *)

\* C19: in the two branches that tell the datasets apart (licenses and
\* frequencies), a file is read as license data exactly when it comes from
\* the directory the license archive was expanded into, whatever download_dir
\* the downloader was constructed with
C19_DatasetFromArchive ==
    parse.pc = "rows" /\ parse.table_name \in {"licenses", "frequencies"} =>
        (parse.is_license_data <=> parse.dataset = "A")

-----------------------------------------------------------------------------
(* The order of the steps of a run, under SpecRun *)

\* the block of dataset p.dataset is left for what comes after it: the fetch
\* of B after the block of A, the history row after the block of B
NextBlock(p, q) ==
    /\ \/ p.pc \in {"fetch", "extract"}
       \/ p.pc = "process" /\ p.dat_files = <<>>
    /\ IF p.dataset = "A" THEN q.pc = "fetch" /\ q.dataset = "B" ELSE q.pc = "history"

\* position q of download_and_process comes next after position p
Follows(p, q) ==
    \/ p.pc = "idle" /\ q.pc = "fetch" /\ q.dataset = "A"
    \/ p.pc = "fetch" /\ q.pc = "extract" /\ q.dataset = p.dataset
    \/ p.pc = "extract" /\ q.pc = "process" /\ q.dataset = p.dataset
    \/ /\ p.pc = "process" /\ q.pc = "process" /\ q.dataset = p.dataset
       /\ p.dat_files # <<>> /\ q.dat_files = Tail(p.dat_files)
    \/ NextBlock(p, q)
    \/ p.pc \in {"fetch", "extract", "history"} /\ q.pc = "except"
    \/ p.pc \in {"history", "except"} /\ q.pc = "idle"

\* C20: the steps of a run come in the order fetch A, expand A, process A,
\* fetch B, expand B, process B, history; the files of a dataset are parsed one
\* after the other, one per step, each call of the parser over before the
\* next step, and no file of B before the last file of A is done
C20_StepsInOrder ==
    [][run' # run =>
          /\ Follows(run, run')
          /\ parse.pc = "idle" /\ parse'.pc = "idle"
          /\ Len(run'.processed) <= Len(run.processed) + 1
          /\ Len(run'.processed) > Len(run.processed) =>
                 run.pc = "process" /\ (run.dataset = "B" => "A" \in run.attempted)
          /\ run'.pc = "process" /\ run'.dataset = "B" =>
                 \/ run.pc = "process" /\ run.dataset = "B"
                 \/ run.pc = "extract" /\ run.dataset = "B" /\ run.dat_files = <<>>
      ]_vars

\* a call in which both archives were fetched and expanded and their files
\* parsed has returned
C20_Witness ==
    /\ run.pc = "idle" /\ run.result = "True"
    /\ run.extracted = {"A", "B"} /\ Len(run.processed) >= 2

-----------------------------------------------------------------------------
(* The expansion of an archive, under SpecRun *)

\* C21: when extract_zip_file did not return the directory of a dataset (the
\* extraction failed, partway or at once), no file of that directory is given
\* to the parser in the call; when it returned it, every member of the archive
\* was written into it
C21_ExpansionAllOrNothing ==
    \A d \in {"A", "B"} :
        /\ d \notin run.extracted => d \notin run.parsed
        /\ d \in run.extracted => run.extracted_to[d] = env.archives[d].files
        /\ d \in run.parsed => d \in run.extracted

\* the license archive was expanded in part, the call went on to the end
\* without a file of it
C21_Witness ==
    /\ Finished /\ run.result = "True"
    /\ run.extracted_to.A # <<>> /\ "A" \notin run.extracted /\ "A" \notin run.parsed
    /\ "B" \in run.parsed

-----------------------------------------------------------------------------
(* The schema, under SpecStore *)

\* this step constructs a downloader on the store
InitDatabaseStep == env'.objects = env.objects + 1

\* C22: init_database on a store that has the tables leaves every row of
\* every table, download_history included, as it was, and the tables and
\* indexes are there after it
C22_InitDatabaseIdempotent ==
    [][InitDatabaseStep /\ SchemaObjects \subseteq db.created =>
          /\ db'.licenses = db.licenses /\ db'.entities = db.entities
          /\ db'.frequencies = db.frequencies /\ db'.locations = db.locations
          /\ db'.antennas = db.antennas
          /\ db'.application_purpose = db.application_purpose
          /\ db'.download_history = db.download_history
          /\ db'.created = SchemaObjects
          /\ conn' = db'
      ]_vars

\* a downloader has been constructed on a store that held rows of records
\* and history rows, and they are there
C22_Witness ==
    /\ env.objects = 2 /\ env.found_rows
    /\ db.frequencies # <<>> /\ db.download_history # <<>>

-----------------------------------------------------------------------------
(* Keys, under SpecParse *)

\* the key of row r of table table_name: the columns of its UNIQUE constraint
KeyOf(table_name, r) ==
    CASE table_name = "licenses" -> <<r.unique_system_identifier>>
      [] table_name = "entities" -> <<r.unique_system_identifier>>
      [] table_name = "frequencies" ->
             <<r.unique_system_identifier, r.frequency_number, r.frequency_seq_id>>
      [] table_name = "locations" -> <<r.unique_system_identifier, r.location_number>>
      [] table_name = "antennas" ->
             <<r.unique_system_identifier, r.antenna_number, r.location_number>>
      [] table_name = "application_purpose" -> <<r.unique_system_identifier, r.purpose_code>>

\* the keys present in a table
Keys(tables, table_name) ==
    { KeyOf(table_name, tables[table_name][i]) : i \in DOMAIN tables[table_name] }

\* this step reads a detail record that no check of the parser turns away
DetailAccepted ==
    /\ RowStep /\ ~parse'.error
    /\ parse.table_name # "licenses"
    /\ parse'.row.n >= min_fields(parse.table_name)
    /\ parse.table_name = "entities" =>
           ~IsBlank(parse'.row.f4) /\ ~entity_skipped(conn.entities, parse'.row)

\* C23: no step of the parser takes a key away from a table, in the
\* connection while it reads lines and in the store at every step; and a
\* detail record is written and counted although licenses holds no row with
\* its identifier
C23_KeysNeverDeleted ==
    [][/\ \A t \in TableNames : Keys(db, t) \subseteq Keys(db', t)
       /\ RowStep => \A t \in TableNames : Keys(conn, t) \subseteq Keys(conn', t)
       /\ DetailAccepted /\ conn.licenses = <<>> =>
              /\ Counted
              /\ conn'.licenses = <<>>
              /\ KeyOf(parse.table_name, Written) \in Keys(conn', parse.table_name)
      ]_vars

\* a detail record replaced a row under its key, with no License row in the
\* store
C23_Witness ==
    /\ parse.pc = "rows" /\ parse.table_name = "application_purpose"
    /\ parse.lines = 2 /\ parse.records_processed = 2
    /\ Len(conn.application_purpose) = 1 /\ conn.licenses = <<>>

-----------------------------------------------------------------------------
(* Commits, under SpecParse *)

\* this step is conn.commit() at the end of a file
CommitStep == parse.pc = "rows" /\ parse'.pc = "idle" /\ parse'.aborted = "no"

\* C24: the store changes only when a file is committed, and then it takes
\* what the connection of that file holds: while a later file is read, and
\* when it fails or the process stops, what the files before it committed is
\* in the store; a new file begins from the committed store
C24_CommittedPerFile ==
    [][/\ ~CommitStep => db' = db
       /\ CommitStep => db' = conn
       /\ parse.pc = "idle" /\ parse'.pc = "rows" => conn' = db
      ]_vars

\* a file failed after a record of it was written, and the rows an earlier
\* file committed are in the store
C24_Witness ==
    /\ parse.pc = "idle" /\ parse.aborted # "no" /\ parse.records_processed > 0
    /\ db[parse.table_name] # <<>> /\ conn = db

-----------------------------------------------------------------------------
(* The count, under SpecParse *)

\* the record of this step is turned away: too few fields, a failing
\* statement, the License precedence rule, or the Entity rule
Rejected ==
    LET row == parse'.row IN
    \/ row.n < min_fields(parse.table_name)
    \/ parse'.error
    \/ /\ parse.table_name = "licenses"
       /\ ~should_process(conn.licenses, parse.is_license_data, row)
    \/ /\ parse.table_name = "entities"
       /\ IsBlank(row.f4) \/ entity_skipped(conn.entities, row)

\* the values the INSERT of table_name binds for a row
RecordValues(table_name, is_license_data, row) ==
    CASE table_name = "licenses" -> license_values(row)
      [] table_name = "entities" -> entity_values(row)
      [] table_name = "frequencies" ->
             IF is_license_data THEN frequency_values_license(row)
             ELSE frequency_values_application(row)
      [] table_name = "locations" -> location_values(row)
      [] table_name = "antennas" -> antenna_values(row)
      [] table_name = "application_purpose" -> purpose_values(row)

\* C25: the count begins at 0, a record that is turned away changes nothing
\* and is not counted, every other record is written under its key and
\* counted once; a call that commits returns the count and the store holds
\* what the counted records wrote, a call that aborts returns 0 and the store
\* holds nothing of it
C25_CountIsUpserts ==
    [][/\ parse.pc = "idle" /\ parse'.pc = "rows" =>
              parse'.records_processed = 0 /\ conn' = db
       /\ RowStep /\ Rejected => Skipped
       /\ RowStep /\ ~Rejected =>
              /\ Counted
              /\ Written = RecordValues(parse.table_name, parse.is_license_data, parse'.row)
              /\ KeyOf(parse.table_name, Written) \in Keys(conn', parse.table_name)
       /\ CommitStep => ret' = parse.records_processed /\ db' = conn
       /\ parse.pc = "rows" /\ parse'.pc = "idle" /\ ~CommitStep => ret' = 0 /\ db' = db
      ]_vars

\* a file of two lines, one of them turned away, was committed with a count
\* of 1 and its row is in the store
C25_Witness ==
    /\ parse.pc = "idle" /\ parse.aborted = "no" /\ parse.lines = 2
    /\ ret = 1 /\ db[parse.table_name] # <<>> /\ db = conn

-----------------------------------------------------------------------------
(* Detail records of the application dataset, under SpecParse *)

DetailTables == {"frequencies", "locations", "antennas", "application_purpose"}

\* this step reads a Frequency, Location, Antenna or Purpose record of the
\* application dataset that is not turned away
ApplicationDetailStep ==
    /\ RowStep /\ ~Rejected
    /\ ~parse.is_license_data
    /\ parse.table_name \in DetailTables

\* C26: such a record is written whatever the table holds, the row written is
\* the only row with its composite key afterwards (a row that had the key is
\* gone), and a Frequency row written this way has no call sign, file number,
\* power or status
C26_ApplicationRecordReplaces ==
    [][ApplicationDetailStep =>
          LET t == conn'[parse.table_name] IN
          /\ Counted
          /\ Written = RecordValues(parse.table_name, FALSE, parse'.row)
          /\ \A i \in 1..(Len(t) - 1) :
                 KeyOf(parse.table_name, t[i]) # KeyOf(parse.table_name, Written)
          /\ parse.table_name = "frequencies" =>
                 /\ Written.call_sign = Null /\ Written.uls_file_number = Null
                 /\ Written.power_output = Null /\ Written.power_erp = Null
                 /\ Written.status_code = Null /\ Written.status_date = Null
      ]_vars

-----------------------------------------------------------------------------
(* SpecBind: one line of n fields of one record kind is taken through the   *)
(* branch of process_csv_file for its table, up to cursor.execute           *)

\* the longest line looked at
MaxFields == 60

\* len(row[lo:hi]) for a list of n elements
slice_len(n, lo, hi) ==
    LET stop == IF hi < n THEN hi ELSE n IN
    IF stop > lo THEN stop - lo ELSE 0

\* the number of columns named in the INSERT of a table, which is also the
\* number of its ? placeholders
column_list(table_name) ==
    CASE table_name = "licenses" -> 58
      [] table_name = "entities" -> 29
      [] table_name = "frequencies" -> 16
      [] table_name = "locations" -> 50
      [] table_name = "antennas" -> 37
      [] table_name = "application_purpose" -> 7

\* a faulty variant of values_passed below: the License slice ends one early
values_passed_short_slice(table_name, is_license_data, n) ==
    CASE table_name = "licenses" -> slice_len(n, 1, 58)
      [] table_name = "entities" -> slice_len(n, 1, 30)
      [] table_name = "frequencies" -> 16
      [] table_name = "locations" -> slice_len(slice_len(n, 1, 51), 0, 50)
      [] table_name = "antennas" -> slice_len(slice_len(n, 1, 38), 0, 37)
      [] table_name = "application_purpose" -> slice_len(n, 1, 8)

\* the number of values handed to cursor.execute for a line of n fields:
\* row[1:59], row[1:30], the 16 entries of processed_data, processed_row[:50]
\* built from row[1:51], processed_row[:37] built from row[1:38], row[1:8]
values_passed(table_name, is_license_data, n) ==
    CASE table_name = "licenses" -> slice_len(n, 1, 59)
      [] table_name = "entities" -> slice_len(n, 1, 30)
      [] table_name = "frequencies" -> 16
      [] table_name = "locations" -> slice_len(slice_len(n, 1, 51), 0, 50)
      [] table_name = "antennas" -> slice_len(slice_len(n, 1, 38), 0, 37)
      [] table_name = "application_purpose" -> slice_len(n, 1, 8)

\* the indexes k of the row[k] evaluated for a line of n fields; an access
\* written "row[k] if len(row) > k else ..." is evaluated only when n > k
positions_read(table_name, is_license_data, n) ==
    CASE table_name = "licenses" -> {1} \cup {k \in {7, 8} : n > k}
      [] table_name = "entities" -> {k \in {4, 1} : n > k}
      [] table_name = "frequencies" ->
             IF is_license_data
             THEN {1, 2, 3, 4, 10, 8, 6, 7, 5} \cup {k \in {15, 16, 17} : n > k}
             ELSE {1, 2} \cup {k \in {10, 8, 6, 7} : n > k}
      [] table_name = "locations" -> {}
      [] table_name = "antennas" -> {}
      [] table_name = "application_purpose" -> {}

\* what becomes of a line of n fields: passed over when it is short, IndexError
\* when a row[k] is beyond its end, sqlite3.ProgrammingError when the number
\* of values is not the number of placeholders, and the statement is run
\* otherwise
bind_line(table_name, is_license_data, n) ==
    IF n < min_fields(table_name) THEN "short"
    ELSE IF \E k \in positions_read(table_name, is_license_data, n) : k >= n THEN "IndexError"
    ELSE IF values_passed(table_name, is_license_data, n) # column_list(table_name)
    THEN "ProgrammingError"
    ELSE "executed"

InitBind ==
    /\ db = init_database(EmptyTables)
    /\ conn = db
    /\ \E t \in TableNames, b \in BOOLEAN, n \in 0..MaxFields :
           parse = [ParseIdle EXCEPT !.table_name = t, !.is_license_data = b, !.row = [n |-> n]]
    /\ ret = NoValue
    /\ run = RunIdle
    /\ env = EnvNone
    /\ dl = DlIdle

\* the line is read and taken to cursor.execute
BindLine ==
    /\ parse.pc = "idle"
    /\ parse' = [parse EXCEPT
           !.pc = "bound",
           !.row = [n |-> parse.row.n,
                    values |-> values_passed(parse.table_name, parse.is_license_data, parse.row.n),
                    outcome |-> bind_line(parse.table_name, parse.is_license_data, parse.row.n)]]
    /\ UNCHANGED <<db, conn, ret, run, env, dl>>

SpecBind == InitBind /\ [][BindLine]_vars

\* C27: a line that has the minimum number of fields of its record kind is
\* taken to its statement without an index out of range, under both
\* Frequency layouts, and the statement is handed as many values as the
\* table's column list names: 58, 29, 16, 50, 37 and 7
C27_ValuesMatchColumns ==
    parse.pc = "bound" /\ parse.row.n >= min_fields(parse.table_name) =>
        /\ parse.row.outcome = "executed"
        /\ parse.row.values = column_list(parse.table_name)
        /\ parse.row.values =
               CASE parse.table_name = "licenses" -> 58
                 [] parse.table_name = "entities" -> 29
                 [] parse.table_name = "frequencies" -> 16
                 [] parse.table_name = "locations" -> 50
                 [] parse.table_name = "antennas" -> 37
                 [] parse.table_name = "application_purpose" -> 7

\* a Frequency line of the application dataset with exactly 18 fields was
\* taken to its statement with 16 values
C27_Witness ==
    /\ parse.pc = "bound" /\ parse.table_name = "frequencies" /\ ~parse.is_license_data
    /\ parse.row.n = FrequencyMinFields /\ parse.row.outcome = "executed"
    /\ parse.row.values = 16

-----------------------------------------------------------------------------
(* The call sign of an Entity row, under SpecParse *)

\* every identifier that has a row in before and a row in after has the same
\* call sign in both, up to surrounding whitespace
SameCallSigns(before, after) ==
    \A i \in DOMAIN before : \A j \in DOMAIN after :
        after[j].unique_system_identifier = before[i].unique_system_identifier =>
            strip(after[j].call_sign) = strip(before[i].call_sign)

\* C28: no step changes the call sign of an identifier that has an Entity
\* row, in the connection and in the store, whichever dataset the records
\* come from
C28_CallSignNeverChanges ==
    [][/\ SameCallSigns(conn.entities, conn'.entities)
       /\ SameCallSigns(db.entities, db'.entities)]_vars

-----------------------------------------------------------------------------
(* SpecRerun: download_and_process called up to MaxRuns times, nothing       *)
(* failing, on a license archive and an application archive that each hold   *)
(* one flat file of License or of Entity records sharing identifiers         *)

\* the longest flat file of the application archive
MaxRecords == 2

\* the flat files of at most n lines of table_name: License records of
\* identifier 1, settled or not, with both dates, one date or none, or the
\* Entity records of SpecParse
RerunFiles(table_name, n) ==
    LET lines == IF table_name = "licenses"
                 THEN { LicenseRow(LicenseMinFields, s, d[1], d[2]) :
                          s \in {ACTIVE, <<"A">>},
                          d \in {<<Date1, Date1>>, <<<<>>, <<>>>>, <<Date1, <<>>>>} }
                 ELSE EntityRows
    IN  { [name |-> dat_name(table_name), rows |-> rows] :
            rows \in UNION { [1..k -> lines] : k \in 0..n } }

\* the license file holds at most one line, the application file at most
\* MaxRecords
InitRerun ==
    /\ db = init_database(EmptyTables)
    /\ conn = db
    /\ parse = ParseIdle
    /\ ret = NoValue
    /\ run = RunIdle
    /\ dl = DlIdle
    /\ \E t \in {"licenses", "entities"} :
       \E a \in RerunFiles(t, 1), b \in RerunFiles(t, MaxRecords) :
           env = [EnvNone EXCEPT !.archives = [A |-> [size |-> 3, files |-> <<a>>],
                                              B |-> [size |-> 5, files |-> <<b>>]]]

\* one call of download_and_process in which no fetch, expansion, file, record
\* or history write fails: the file of the license archive, the file of the
\* application archive, the history row, return True
CleanRun ==
    /\ run.pc = "idle" /\ run.runs < MaxRuns
    /\ \E fa \in {Head(env.archives.A.files)}, fb \in {Head(env.archives.B.files)} :
       \E a \in {process_csv_file(db, dat_path(env.download_dir, "A", fa.name),
                                   file_mappings(file_prefix(fa.name)), fa.rows,
                                   [i \in 1..Len(fa.rows) |-> FALSE], FALSE)} :
       \E b \in {process_csv_file(a.tables, dat_path(env.download_dir, "B", fb.name),
                                   file_mappings(file_prefix(fb.name)), fb.rows,
                                   [i \in 1..Len(fb.rows) |-> FALSE], FALSE)} :
       \E r \in {[RunIdle EXCEPT
                     !.runs = run.runs, !.tables_before = db,
                     !.lm_licenses_zip = join(env.download_dir, zip_name("A")),
                     !.lm_apps_zip = join(env.download_dir, zip_name("B")),
                     !.attempted = {"A", "B"}, !.extracted = {"A", "B"},
                     !.parsed = {"A", "B"},
                     !.extracted_to = [A |-> env.archives.A.files, B |-> env.archives.B.files],
                     !.processed = <<a.records, b.records>>,
                     !.total_records = add_records(add_records(0, a.records), b.records)]} :
           /\ db' = insert_history(b.tables, history_row(r))
           /\ run' = return(r, "True")
    /\ conn' = db'
    /\ UNCHANGED <<parse, ret, env, dl>>

SpecRerun == InitRerun /\ [][CleanRun]_vars

\* the last call was not the first on these archives
SecondRun == run.pc = "idle" /\ run.runs >= 2

\* the rows of a table, without their order
RowsIn(table) == { table[i] : i \in DOMAIN table }

\* licenses and entities hold as many rows as before the last call, and the
\* same rows in the columns the parser writes
SameRecords ==
    \A t \in {"licenses", "entities"} :
        /\ Len(db[t]) = Len(run.tables_before[t])
        /\ RowsIn(db[t]) = RowsIn(run.tables_before[t])

\* id INTEGER PRIMARY KEY AUTOINCREMENT and created_at DEFAULT
\* CURRENT_TIMESTAMP: every INSERT OR REPLACE gives its row an id above every
\* id the table has held and the time of the statement, so these two columns
\* are as before the call exactly when the call upserted no record
SurrogateColumnsKept == Sum(run.processed) = 0

-----------------------------------------------------------------------------
(* A file that fails as a whole, under SpecParse *)

\* the call of process_csv_file ends
CallEnds == parse.pc = "rows" /\ parse'.pc = "idle"

\* C30: a call that ends in the handler of the whole file returns 0 and
\* leaves the store as it was when the file was opened, whatever was upserted
\* before; no call returns a negative count, and a call that returns 0 has
\* stored nothing
C30_FileIsAtomic ==
    [][/\ CallEnds /\ parse'.aborted # "no" => ret' = 0 /\ db' = db /\ conn' = db
       /\ CallEnds => ret' >= 0 /\ (ret' = 0 => db' = db)]_vars

\* a file failed as a whole after records of it had been upserted: 0 was
\* returned and its table is empty
C30_Witness ==
    /\ parse.pc = "idle" /\ parse.aborted = "other" /\ parse.records_processed > 0
    /\ ret = 0 /\ db[parse.table_name] = <<>> /\ conn = db

====
